---- MODULE Spec2Model ----
(***************************************************************************)
(* Model of the signal-to-control mapping of vrm1-face-tracking:           *)
(*   crates/expression_adapter  (ArkitToVrmAdapter::to_vrm_expressions)    *)
(*   crates/pose_adapter        (MediaPipePoseAdapter)                     *)
(*   crates/tracker_ipc, src/main.rs  (reader thread, channel, the Update  *)
(*                               systems that drain, apply and load)       *)
(*   src/live_expressions.rs    (LiveExpressionWeights)                    *)
(*   crates/vrm_loader          (parse_glb)                                *)
(*                                                                         *)
(* f32 values are modelled in fixed point, 1.0 = 20 units, so that 0.3,    *)
(* 0.5 and the mean of two multiples of 0.1 are exact.  The two infinities *)
(* (which serde_json yields for an out-of-range literal such as 1e39) and  *)
(* NaN (which inf + -inf or 0/0 produces) are kept as distinguished values *)
(* with the IEEE-754 rules for comparison and addition.                    *)
(***************************************************************************)
EXTENDS Integers, Sequences, FiniteSets, TLC

VARIABLES
    raw_blendshapes,   \* the HashMap<String, f32> handed to to_vrm_expressions
    expressions,       \* the Vec<VrmExpression> it returned
    expr_pc,           \* "call" before the call, "done" after it
    landmarks,         \* the &[PoseWorldLandmark] handed to landmarks_to_bone_rotations
    rotations,         \* the Vec<VrmBoneRotation> it returned
    pose_pc,           \* "call" before the call, "done" after it
    calls,             \* log of the mapper calls made so far: <<fn, input, output>>
    rot_from,          \* the `from` handed to rotation_between_vectors
    rot_to,            \* the `to` handed to rotation_between_vectors
    rot_result,        \* the Quat it returned
    rot_pc,            \* "call" before the call, "done" after it
    stdout,            \* the lines the tracker process has yet to deliver
    reader_pc,         \* the reader thread: "reading", or "ended" after its loop
    channel,           \* crossbeam_channel::unbounded(): frames sent, not yet received
    sent,              \* every frame the reader passed to tx.send, in order
    drain_pc,          \* dump_tracker_frames: "idle" between runs, "draining" in its loop
    current_expressions, \* the resource CurrentExpressions.expressions
    processed,         \* every frame try_recv returned, in order
    expr_runs,         \* the calls of to_vrm_expressions made by the draining system
    pose_runs,         \* the calls of landmarks_to_bone_rotations made by it
    drain_run,         \* the current or last run of dump_tracker_frames
    live_weights,      \* LiveExpressionWeights.weights: HashMap<String, f32>
    live_before,       \* the weights before the last call
    live_last,         \* the last call on the component: its name, argument, return value
    live_n,            \* the number of calls made on the component
    expression_to_morphs, \* VrmExpressionMap.expression_to_morphs, the same on every mesh
    morph_weights,     \* MorphWeights.weights() of each mesh entity
    applied,           \* what the last run of apply_expressions read and did
    dialog_rx,         \* FileDialogChannel: results sent by dialog threads, not yet received
    dialog_results,    \* every result a dialog thread has sent, in order
    vrm_path,          \* VrmModelPath.path: <<>> is None, <<p>> is Some(p)
    selected,          \* the paths received since the last load took the slot
    vrm_entities,      \* the entities of the world tagged CurrentVrmEntity
    commands,          \* Commands queued by load_vrm_from_path, not yet applied
    load_log,          \* the loads made so far: what each took, found and queued
    glb_bytes,         \* the &[u8] handed to parse_glb
    glb_offset,        \* its local `offset`
    glb_prev,          \* the offset at the start of the loop iterations made so far
    glb_json_data,     \* its local `json_data`
    glb_bin_data,      \* its local `bin_data`
    glb_pc             \* "call", "loop", then "ok" or "err" for the Result

rotVars == <<rot_from, rot_to, rot_result, rot_pc>>

appVars == <<stdout, reader_pc, channel, sent, drain_pc, current_expressions,
             processed, expr_runs, pose_runs, drain_run>>

liveVars == <<live_weights, live_before, live_last, live_n>>

\* the state of the parts modelled after the mappers, the rotation primitive and
\* the tracker pipeline
avatarVars == <<expression_to_morphs, morph_weights, applied>>

loadVars == <<dialog_rx, dialog_results, vrm_path, selected, vrm_entities, commands, load_log>>

glbVars == <<glb_bytes, glb_offset, glb_prev, glb_json_data, glb_bin_data, glb_pc>>

laterVars == <<liveVars, avatarVars, loadVars, glbVars>>

vars == <<raw_blendshapes, expressions, expr_pc, landmarks, rotations, pose_pc, calls,
          rotVars, appVars, laterVars>>

NoVal == <<>>

\* no LiveExpressionWeights component is in use
IdleLive ==
    /\ live_weights = <<>>
    /\ live_before = <<>>
    /\ live_last = NoVal
    /\ live_n = 0

\* no VRM scene with morph targets is loaded
IdleAvatar ==
    /\ expression_to_morphs = <<>>
    /\ morph_weights = <<>>
    /\ applied = [ran |-> FALSE]

\* no file dialog has been opened and no VRM loaded
IdleLoad ==
    /\ dialog_rx = <<>>
    /\ dialog_results = <<>>
    /\ vrm_path = <<>>
    /\ selected = <<>>
    /\ vrm_entities = {}
    /\ commands = <<>>
    /\ load_log = <<>>

\* parse_glb is not being called
IdleGlb ==
    /\ glb_bytes = <<>>
    /\ glb_offset = 0
    /\ glb_prev = <<>>
    /\ glb_json_data = <<>>
    /\ glb_bin_data = <<>>
    /\ glb_pc = "idle"

IdleLater == IdleLive /\ IdleAvatar /\ IdleLoad /\ IdleGlb

\* neither mapper is being called
IdleMappers ==
    /\ raw_blendshapes = NoVal
    /\ expressions = NoVal
    /\ expr_pc = "idle"
    /\ landmarks = NoVal
    /\ rotations = NoVal
    /\ pose_pc = "idle"
    /\ calls = <<>>

\* rotation_between_vectors is not being called on its own
IdleRot ==
    /\ rot_from = NoVal
    /\ rot_to = NoVal
    /\ rot_result = NoVal
    /\ rot_pc = "idle"

\* the application is not running
IdleApp ==
    /\ stdout = [lines |-> <<>>, pos |-> 0]
    /\ reader_pc = "idle"
    /\ channel = <<>>
    /\ sent = <<>>
    /\ drain_pc = "off"
    /\ current_expressions = <<>>
    /\ processed = <<>>
    /\ expr_runs = <<>>
    /\ pose_runs = <<>>
    /\ drain_run = [state |-> "none"]

---------------------------------------------------------------------------
(* f32 arithmetic *)

Zero == 0
One == 20
PosInf == 1000000
NegInf == -1000000
NaN == 7777777

IsFinite(a) == a # NaN /\ a # PosInf /\ a # NegInf

\* IEEE-754: every ordered comparison with NaN is false
Gt(a, b) == a # NaN /\ b # NaN /\ a > b
Lt(a, b) == a # NaN /\ b # NaN /\ a < b
Ge(a, b) == a # NaN /\ b # NaN /\ a >= b

\* a + b
Add(a, b) ==
    IF a = NaN \/ b = NaN THEN NaN
    ELSE IF a = PosInf THEN (IF b = NegInf THEN NaN ELSE PosInf)
    ELSE IF a = NegInf THEN (IF b = PosInf THEN NaN ELSE NegInf)
    ELSE IF b = PosInf \/ b = NegInf THEN b
    ELSE a + b

\* a * 0.5, a / 2.0 (exact when a is an even number of units, the sum of two
\* multiples of 0.1; MinPositive, 1 unit, is halved to 0 as 2^-149 is, and a
\* multiple of 0.1 plus MinPositive is halved as that multiple, to which the
\* sum rounds)
Half(a) == IF IsFinite(a) THEN a \div 2 ELSE a

\* f32::clamp(self, min, max)
clamp(x, min, max) ==
    IF Lt(x, min) THEN min
    ELSE IF Gt(x, max) THEN max
    ELSE x

\* f32::clamp panics unless min <= max (a NaN bound fails the comparison)
clamp_panics(min, max) == min = NaN \/ max = NaN \/ ~(min <= max)

---------------------------------------------------------------------------
(* crates/expression_adapter *)

VrmExpressionPreset ==
    { "Happy", "Angry", "Sad", "Relaxed", "Surprised",
      "Aa", "Ih", "Ou", "Ee", "Oh",
      "Blink", "BlinkLeft", "BlinkRight",
      "LookUp", "LookDown", "LookLeft", "LookRight",
      "Neutral" }

as_str(preset) ==
    CASE preset = "Happy" -> "happy"
      [] preset = "Angry" -> "angry"
      [] preset = "Sad" -> "sad"
      [] preset = "Relaxed" -> "relaxed"
      [] preset = "Surprised" -> "surprised"
      [] preset = "Aa" -> "aa"
      [] preset = "Ih" -> "ih"
      [] preset = "Ou" -> "ou"
      [] preset = "Ee" -> "ee"
      [] preset = "Oh" -> "oh"
      [] preset = "Blink" -> "blink"
      [] preset = "BlinkLeft" -> "blinkLeft"
      [] preset = "BlinkRight" -> "blinkRight"
      [] preset = "LookUp" -> "lookUp"
      [] preset = "LookDown" -> "lookDown"
      [] preset = "LookLeft" -> "lookLeft"
      [] preset = "LookRight" -> "lookRight"
      [] preset = "Neutral" -> "neutral"

\* mutant: the constructor stores the weight as given
VrmExpression_new_unclamped(preset, weight) ==
    [preset |-> preset, weight |-> weight]

VrmExpression_new(preset, weight) ==
    [preset |-> preset, weight |-> clamp(weight, Zero, One)]

\* mutant: a missing coefficient defaults to 1.0
get_default_one(raw, name) == IF name \in DOMAIN raw THEN raw[name] ELSE One

\* raw_blendshapes.get(name).copied().unwrap_or(0.0)
get(raw, name) == IF name \in DOMAIN raw THEN raw[name] ELSE Zero

\* expressions.push(e) under an if
push_if(cond, e) == IF cond THEN <<e>> ELSE <<>>

SmileThreshold == 6
FrownThreshold == 6
JawOpenThreshold == 10
PuckerThreshold == 10
FunnelThreshold == 10

blink_left(raw) == get(raw, "eyeBlinkLeft")
blink_right(raw) == get(raw, "eyeBlinkRight")
\* mutant: the combined blink is the sum of both eyes, not their mean
blink_sum(raw) == Add(blink_left(raw), blink_right(raw))

blink(raw) == Half(Add(blink_left(raw), blink_right(raw)))

look_up(raw) == Half(Add(get(raw, "eyeLookUpLeft"), get(raw, "eyeLookUpRight")))
look_down(raw) == Half(Add(get(raw, "eyeLookDownLeft"), get(raw, "eyeLookDownRight")))
\* mutant: look_left pairs the two inner coefficients
look_left_in_in(raw) == Half(Add(get(raw, "eyeLookInLeft"), get(raw, "eyeLookInRight")))

look_left(raw) == Half(Add(get(raw, "eyeLookInLeft"), get(raw, "eyeLookOutRight")))
look_right(raw) == Half(Add(get(raw, "eyeLookOutLeft"), get(raw, "eyeLookInRight")))

smile(raw) == Half(Add(get(raw, "mouthSmileLeft"), get(raw, "mouthSmileRight")))
frown(raw) == Half(Add(get(raw, "mouthFrownLeft"), get(raw, "mouthFrownRight")))

jaw_open(raw) == get(raw, "jawOpen")
mouth_funnel(raw) == get(raw, "mouthFunnel")
mouth_pucker(raw) == get(raw, "mouthPucker")

\* the blocks of to_vrm_expressions, in source order
\* mutant: BlinkLeft is pushed for a coefficient of 0 too
push_blink_left_ge(raw) ==
    push_if(Ge(blink_left(raw), Zero), VrmExpression_new("BlinkLeft", blink_left(raw)))

push_blink_left(raw) ==
    push_if(Gt(blink_left(raw), Zero), VrmExpression_new("BlinkLeft", blink_left(raw)))
push_blink_right(raw) ==
    push_if(Gt(blink_right(raw), Zero), VrmExpression_new("BlinkRight", blink_right(raw)))
\* mutant: the combined blink is pushed once per closed eye
push_blink_per_eye(raw) ==
       push_if(Gt(blink_left(raw), Zero), VrmExpression_new("Blink", blink(raw)))
    \o push_if(Gt(blink_right(raw), Zero), VrmExpression_new("Blink", blink(raw)))

push_blink(raw) ==
    push_if(Gt(blink(raw), Zero), VrmExpression_new("Blink", blink(raw)))
push_look(raw) ==
       push_if(Gt(look_up(raw), Zero), VrmExpression_new("LookUp", look_up(raw)))
    \o push_if(Gt(look_down(raw), Zero), VrmExpression_new("LookDown", look_down(raw)))
    \o push_if(Gt(look_left(raw), Zero), VrmExpression_new("LookLeft", look_left(raw)))
    \o push_if(Gt(look_right(raw), Zero), VrmExpression_new("LookRight", look_right(raw)))
\* mutant: the emotion threshold is inclusive
push_happy_ge(raw) ==
    push_if(Ge(smile(raw), SmileThreshold), VrmExpression_new("Happy", smile(raw)))

push_happy(raw) ==
    push_if(Gt(smile(raw), SmileThreshold), VrmExpression_new("Happy", smile(raw)))
push_sad(raw) ==
    push_if(Gt(frown(raw), FrownThreshold), VrmExpression_new("Sad", frown(raw)))
push_aa(raw) ==
    push_if(Gt(jaw_open(raw), JawOpenThreshold), VrmExpression_new("Aa", jaw_open(raw)))
push_ou(raw) ==
    push_if(Gt(mouth_pucker(raw), PuckerThreshold), VrmExpression_new("Ou", mouth_pucker(raw)))
\* mutant: Oh is only tried when Ou was not emitted (else-if chain)
push_oh_else(raw) ==
    IF Gt(mouth_pucker(raw), PuckerThreshold) THEN <<>>
    ELSE push_if(Gt(mouth_funnel(raw), FunnelThreshold),
                 VrmExpression_new("Oh", mouth_funnel(raw)))

push_oh(raw) ==
    push_if(Gt(mouth_funnel(raw), FunnelThreshold), VrmExpression_new("Oh", mouth_funnel(raw)))

\* mutant: an adapter that holds the last non-empty result while the new frame
\* yields nothing
to_vrm_expressions_hold(raw) ==
    LET fresh ==    push_blink_left(raw) \o push_blink_right(raw) \o push_blink(raw)
                 \o push_look(raw)
                 \o push_happy(raw) \o push_sad(raw)
                 \o push_aa(raw) \o push_ou(raw) \o push_oh(raw)
    IN  IF fresh = <<>> THEN expressions ELSE fresh

to_vrm_expressions(raw) ==
       push_blink_left(raw) \o push_blink_right(raw) \o push_blink(raw)
    \o push_look(raw)
    \o push_happy(raw) \o push_sad(raw)
    \o push_aa(raw) \o push_ou(raw) \o push_oh(raw)

---------------------------------------------------------------------------
(* crates/pose_adapter *)

\* PoseLandmarkIndex (the indices the adapter reads)
LeftShoulder == 11
RightShoulder == 12
LeftElbow == 13
RightElbow == 14
LeftWrist == 15
RightWrist == 16

\* landmarks[index as usize] on a 0-based slice
at(lms, index) == lms[index + 1]

\* landmarks.len() < 33
MinLandmarks == 33

\* visibility < 0.5
VisibilityThreshold == 10

\* Positions are integer vectors in units of 0.1 m.  A normalized vector is
\* kept exactly as num / sqrt(den2); den2 = 0 is the all-NaN vector that glam
\* returns for the normalization of a zero-length vector (0 * 1/0).
to_vec3(lm) == <<lm.x, lm.y, lm.z>>

sub(a, b) == <<a[1] - b[1], a[2] - b[2], a[3] - b[3]>>

Dot3(a, b) == a[1] * b[1] + a[2] * b[2] + a[3] * b[3]

Cross3(a, b) ==
    << a[2] * b[3] - a[3] * b[2],
       a[3] * b[1] - a[1] * b[3],
       a[1] * b[2] - a[2] * b[1] >>

\* Vec3::new(x, y, z) for a vector that is already of unit length
UnitVec3(x, y, z) == [num |-> <<x, y, z>>, den2 |-> 1]

\* Vec3::normalize
normalize(v) == [num |-> v, den2 |-> Dot3(v, v)]

IsNaNVec(u) == u.den2 = 0

\* from.dot(to) of two normalized vectors: the scalar num / sqrt(den2)
dot(from, to) == [num |-> Dot3(from.num, to.num), den2 |-> from.den2 * to.den2]

\* the sign of num / sqrt(den2) - 0.9999: 1 above, 0 equal, -1 below or NaN.
\* With r = den2 - num^2 the comparison is that of 19999 * den2 with r * 10^8,
\* evaluated in 32 bits after splitting den2 = 10^4 * q + m (den2 <= 10^8)
CosVsThreshold(d) ==
    IF d.den2 <= 0 \/ d.num <= 0 THEN -1
    ELSE LET r == d.den2 - d.num * d.num
             q == d.den2 \div 10000
             m == d.den2 % 10000
             L == r * 10000 - 19999 * q
         IN  IF r >= 20000 THEN -1
             ELSE IF L < 0 THEN 1
             ELSE IF L >= 20000 THEN -1
             ELSE IF L * 10000 < 19999 * m THEN 1
             ELSE IF L * 10000 = 19999 * m THEN 0
             ELSE -1

\* num / sqrt(den2) > 0.9999
AboveParallel(d) == CosVsThreshold(d) = 1

\* mutant: the parallel case includes a dot product of exactly 0.9999
dot_ge_parallel(d) == CosVsThreshold(d) >= 0

\* dot > 0.9999
dot_gt_parallel(d) == AboveParallel(d)

\* dot < -0.9999
dot_lt_antiparallel(d) == AboveParallel([num |-> 0 - d.num, den2 |-> d.den2])

\* mutant: the axis is to x from
cross_normalize_reversed(from, to) ==
    IF IsNaNVec(from) \/ IsNaNVec(to)
    THEN normalize(<<0, 0, 0>>)
    ELSE normalize(Cross3(to.num, from.num))

\* from.cross(to).normalize()
cross_normalize(from, to) ==
    IF IsNaNVec(from) \/ IsNaNVec(to)
    THEN normalize(<<0, 0, 0>>)
    ELSE normalize(Cross3(from.num, to.num))

\* angles: 0, std::f32::consts::PI, and dot.acos() of a scalar num / sqrt(den2)
AngleZero == [fn |-> "zero", num |-> 0, den2 |-> 1]
AnglePi == [fn |-> "pi", num |-> 0, den2 |-> 1]
acos(d) == [fn |-> IF d.den2 = 0 THEN "nan" ELSE "acos", num |-> d.num, den2 |-> d.den2]

NaNVec == [num |-> <<0, 0, 0>>, den2 |-> 0]

Quat_IDENTITY == [kind |-> "identity", axis |-> NaNVec, angle |-> AngleZero]

\* Quat::from_axis_angle(axis, angle); a NaN axis or angle gives a NaN quaternion
Quat_from_axis_angle(axis, angle) ==
    IF IsNaNVec(axis) \/ angle.fn = "nan"
    THEN [kind |-> "nan", axis |-> NaNVec, angle |-> acos([num |-> 0, den2 |-> 0])]
    ELSE [kind |-> "axis_angle", axis |-> axis, angle |-> angle]

\* from.x.abs() > 0.9
abs_x_gt(from) == from.num[1] * from.num[1] * 100 > 81 * from.den2

rotation_between_vectors(from, to) ==
    LET d == dot(from, to) IN
    IF dot_gt_parallel(d) THEN Quat_IDENTITY
    ELSE IF dot_lt_antiparallel(d)
    THEN Quat_from_axis_angle(
             IF abs_x_gt(from) THEN UnitVec3(0, 1, 0) ELSE UnitVec3(1, 0, 0), AnglePi)
    ELSE Quat_from_axis_angle(cross_normalize(from, to), acos(d))

\* mutant: the confidence is stored as computed
VrmBoneRotation_new_unclamped(bone_name, rotation, confidence) ==
    [bone_name |-> bone_name, rotation |-> rotation, confidence |-> confidence]

VrmBoneRotation_new(bone_name, rotation, confidence) ==
    [bone_name |-> bone_name, rotation |-> rotation,
     confidence |-> clamp(confidence, Zero, One)]

\* mutant: no rotation for a bone of length zero
compute_left_upper_arm_rotation_nonzero(lms) ==
    LET shoulder == at(lms, LeftShoulder)
        elbow == at(lms, LeftElbow)
    IN  IF Lt(shoulder.visibility, VisibilityThreshold)
           \/ Lt(elbow.visibility, VisibilityThreshold)
           \/ to_vec3(elbow) = to_vec3(shoulder)
        THEN <<>>
        ELSE LET bone_dir == normalize(sub(to_vec3(elbow), to_vec3(shoulder)))
                 default_dir == UnitVec3(-1, 0, 0)
                 rotation == rotation_between_vectors(default_dir, bone_dir)
                 confidence == Half(Add(shoulder.visibility, elbow.visibility))
             IN  <<VrmBoneRotation_new("leftUpperArm", rotation, confidence)>>

\* Option<VrmBoneRotation>: <<>> is None, <<r>> is Some(r)
compute_left_upper_arm_rotation(lms) ==
    LET shoulder == at(lms, LeftShoulder)
        elbow == at(lms, LeftElbow)
    IN  IF Lt(shoulder.visibility, VisibilityThreshold)
           \/ Lt(elbow.visibility, VisibilityThreshold)
        THEN <<>>
        ELSE LET bone_dir == normalize(sub(to_vec3(elbow), to_vec3(shoulder)))
                 default_dir == UnitVec3(-1, 0, 0)
                 rotation == rotation_between_vectors(default_dir, bone_dir)
                 confidence == Half(Add(shoulder.visibility, elbow.visibility))
             IN  <<VrmBoneRotation_new("leftUpperArm", rotation, confidence)>>

compute_left_lower_arm_rotation(lms) ==
    LET elbow == at(lms, LeftElbow)
        wrist == at(lms, LeftWrist)
    IN  IF Lt(elbow.visibility, VisibilityThreshold)
           \/ Lt(wrist.visibility, VisibilityThreshold)
        THEN <<>>
        ELSE LET bone_dir == normalize(sub(to_vec3(wrist), to_vec3(elbow)))
                 default_dir == UnitVec3(-1, 0, 0)
                 rotation == rotation_between_vectors(default_dir, bone_dir)
                 confidence == Half(Add(elbow.visibility, wrist.visibility))
             IN  <<VrmBoneRotation_new("leftLowerArm", rotation, confidence)>>

compute_right_upper_arm_rotation(lms) ==
    LET shoulder == at(lms, RightShoulder)
        elbow == at(lms, RightElbow)
    IN  IF Lt(shoulder.visibility, VisibilityThreshold)
           \/ Lt(elbow.visibility, VisibilityThreshold)
        THEN <<>>
        ELSE LET bone_dir == normalize(sub(to_vec3(elbow), to_vec3(shoulder)))
                 default_dir == UnitVec3(1, 0, 0)
                 rotation == rotation_between_vectors(default_dir, bone_dir)
                 confidence == Half(Add(shoulder.visibility, elbow.visibility))
             IN  <<VrmBoneRotation_new("rightUpperArm", rotation, confidence)>>

\* mutant: the right forearm is reported under the upper arm's name
compute_right_lower_arm_rotation_upper(lms) ==
    LET elbow == at(lms, RightElbow)
        wrist == at(lms, RightWrist)
    IN  IF Lt(elbow.visibility, VisibilityThreshold)
           \/ Lt(wrist.visibility, VisibilityThreshold)
        THEN <<>>
        ELSE LET bone_dir == normalize(sub(to_vec3(wrist), to_vec3(elbow)))
                 default_dir == UnitVec3(1, 0, 0)
                 rotation == rotation_between_vectors(default_dir, bone_dir)
                 confidence == Half(Add(elbow.visibility, wrist.visibility))
             IN  <<VrmBoneRotation_new("rightUpperArm", rotation, confidence)>>

compute_right_lower_arm_rotation(lms) ==
    LET elbow == at(lms, RightElbow)
        wrist == at(lms, RightWrist)
    IN  IF Lt(elbow.visibility, VisibilityThreshold)
           \/ Lt(wrist.visibility, VisibilityThreshold)
        THEN <<>>
        ELSE LET bone_dir == normalize(sub(to_vec3(wrist), to_vec3(elbow)))
                 default_dir == UnitVec3(1, 0, 0)
                 rotation == rotation_between_vectors(default_dir, bone_dir)
                 confidence == Half(Add(elbow.visibility, wrist.visibility))
             IN  <<VrmBoneRotation_new("rightLowerArm", rotation, confidence)>>

\* mutant: the chest is dropped only when both shoulders are hidden
compute_chest_rotation_and(lms) ==
    LET left_shoulder == at(lms, LeftShoulder)
        right_shoulder == at(lms, RightShoulder)
    IN  IF Lt(left_shoulder.visibility, VisibilityThreshold)
           /\ Lt(right_shoulder.visibility, VisibilityThreshold)
        THEN <<>>
        ELSE LET shoulder_dir ==
                     normalize(sub(to_vec3(right_shoulder), to_vec3(left_shoulder)))
                 default_dir == UnitVec3(1, 0, 0)
                 rotation == rotation_between_vectors(default_dir, shoulder_dir)
                 confidence ==
                     Half(Add(left_shoulder.visibility, right_shoulder.visibility))
             IN  <<VrmBoneRotation_new("chest", rotation, confidence)>>

compute_chest_rotation(lms) ==
    LET left_shoulder == at(lms, LeftShoulder)
        right_shoulder == at(lms, RightShoulder)
    IN  IF Lt(left_shoulder.visibility, VisibilityThreshold)
           \/ Lt(right_shoulder.visibility, VisibilityThreshold)
        THEN <<>>
        ELSE LET shoulder_dir ==
                     normalize(sub(to_vec3(right_shoulder), to_vec3(left_shoulder)))
                 default_dir == UnitVec3(1, 0, 0)
                 rotation == rotation_between_vectors(default_dir, shoulder_dir)
                 confidence ==
                     Half(Add(left_shoulder.visibility, right_shoulder.visibility))
             IN  <<VrmBoneRotation_new("chest", rotation, confidence)>>

\* mutant: the length check stops at the first landmark the adapter reads
insufficient_11(lms) == Len(lms) < LeftShoulder

\* landmarks.len() < 33
insufficient(lms) == Len(lms) < MinLandmarks

\* landmarks[index] panics: the index is out of range
index_panics(lms, index) == index >= Len(lms)

\* mutant: the length check asks only for the landmarks the adapter reads
landmarks_to_bone_rotations_17(lms) ==
    IF Len(lms) < RightWrist + 1 THEN <<>>
    ELSE    compute_left_upper_arm_rotation(lms)
         \o compute_left_lower_arm_rotation(lms)
         \o compute_right_upper_arm_rotation(lms)
         \o compute_right_lower_arm_rotation(lms)
         \o compute_chest_rotation(lms)

landmarks_to_bone_rotations(lms) ==
    IF insufficient(lms) THEN <<>>
    ELSE    compute_left_upper_arm_rotation(lms)
         \o compute_left_lower_arm_rotation(lms)
         \o compute_right_upper_arm_rotation(lms)
         \o compute_right_lower_arm_rotation(lms)
         \o compute_chest_rotation(lms)

\* the call panics: past the length check, a compute_* function reads a landmark
\* that is not there (each reads its two landmarks before testing visibility),
\* or VrmBoneRotation::new's clamp panics
landmarks_to_bone_rotations_panics(lms) ==
    /\ ~insufficient(lms)
    /\ \/ \E index \in LeftShoulder..RightWrist : index_panics(lms, index)
       \/ landmarks_to_bone_rotations(lms) # <<>> /\ clamp_panics(Zero, One)

---------------------------------------------------------------------------
(* Inputs of the expression mapper *)

\* the 17 names the rule table reads
RuleNames ==
    { "eyeBlinkLeft", "eyeBlinkRight",
      "eyeLookUpLeft", "eyeLookUpRight", "eyeLookDownLeft", "eyeLookDownRight",
      "eyeLookInLeft", "eyeLookOutRight", "eyeLookOutLeft", "eyeLookInRight",
      "mouthSmileLeft", "mouthSmileRight", "mouthFrownLeft", "mouthFrownRight",
      "jawOpen", "mouthFunnel", "mouthPucker" }

\* a name of the tracker that no rule reads
OtherNames == { "browInnerUp" }

BlendshapeNames == RuleNames \cup OtherNames

\* -0.5, 0, 0.3, 0.5, 0.9, 1.5 and the two infinities
CoeffValues == { NegInf, -10, 0, 6, 10, 18, 30, PosInf }

\* the frames of the crate's tests: blink 0.8/0.9, smile 0.7/0.7,
\* weak smile 0.2/0.2, gaze up 0.6/0.4
TestFrames ==
    { [n \in {"eyeBlinkLeft", "eyeBlinkRight"} |-> IF n = "eyeBlinkLeft" THEN 16 ELSE 18],
      [n \in {"mouthSmileLeft", "mouthSmileRight"} |-> 14],
      [n \in {"mouthSmileLeft", "mouthSmileRight"} |-> 4],
      [n \in {"eyeLookUpLeft", "eyeLookUpRight"} |-> IF n = "eyeLookUpLeft" THEN 12 ELSE 8] }

MaxEntries == 2

SubsetsUpTo(S, n) == { T \in SUBSET S : Cardinality(T) <= n }

\* every frame of at most MaxEntries coefficients, the frames that set every
\* name to one value, and the frames of the tests
Frames ==
    UNION { [T -> CoeffValues] : T \in SubsetsUpTo(BlendshapeNames, MaxEntries) }
    \cup { [n \in BlendshapeNames |-> v] : v \in CoeffValues }
    \cup TestFrames

InitExpr ==
    /\ raw_blendshapes \in Frames
    /\ expressions = NoVal
    /\ expr_pc = "call"
    /\ landmarks = NoVal
    /\ rotations = NoVal
    /\ pose_pc = "idle"
    /\ calls = <<>>
    /\ IdleRot
    /\ IdleApp
    /\ IdleLater

\* one call of ArkitToVrmAdapter::to_vrm_expressions
\* the call panics: an expression is pushed and VrmExpression::new's clamp panics
to_vrm_expressions_panics(raw) ==
    to_vrm_expressions(raw) # <<>> /\ clamp_panics(Zero, One)

ToVrmExpressions ==
    /\ expr_pc = "call"
    /\ IF to_vrm_expressions_panics(raw_blendshapes)
       THEN expressions' = NoVal /\ expr_pc' = "panic"
       ELSE expressions' = to_vrm_expressions(raw_blendshapes) /\ expr_pc' = "done"
    /\ UNCHANGED <<raw_blendshapes, landmarks, rotations, pose_pc, calls, rotVars, appVars, laterVars>>

NextExpr == ToVrmExpressions

\* -0.5, 0.0 and 0.9: the frames on which a coefficient is added or removed
SparseValues == { -10, 0, 18 }

SparseFrames ==
    UNION { [T -> SparseValues] : T \in SubsetsUpTo(BlendshapeNames, MaxEntries) }

InitSparse ==
    /\ raw_blendshapes \in SparseFrames
    /\ expressions = NoVal
    /\ expr_pc = "call"
    /\ landmarks = NoVal
    /\ rotations = NoVal
    /\ pose_pc = "idle"
    /\ calls = <<>>
    /\ IdleRot
    /\ IdleApp
    /\ IdleLater

SpecSparse == InitSparse /\ [][NextExpr]_vars

\* the smallest positive f32, 2^-149 (what serde_json makes of 1e-45): it is
\* > 0.0, its sum with 0.0 or with itself is exact, and half of it is the tie
\* between 0 and itself, which rounds to 0.  It is kept as 1 unit and appears
\* only in the eyelid coefficients of BlinkFrames
MinPositive == 1

\* -0.5, 0, 2^-149, 0.3, 0.5, 1.0 and 1.5
BlinkValues == { -10, 0, MinPositive, 6, 10, 20, 30 }

\* the frames that set any of the two eyelid coefficients, with or without an
\* open jaw beside them
BlinkFrames ==
    UNION { [T \cup J -> BlinkValues] :
               T \in SUBSET {"eyeBlinkLeft", "eyeBlinkRight"}, J \in {{}, {"jawOpen"}} }

InitBlink ==
    /\ raw_blendshapes \in { f \in BlinkFrames :
                               "jawOpen" \in DOMAIN f => f["jawOpen"] = 20 }
    /\ expressions = NoVal
    /\ expr_pc = "call"
    /\ landmarks = NoVal
    /\ rotations = NoVal
    /\ pose_pc = "idle"
    /\ calls = <<>>
    /\ IdleRot
    /\ IdleApp
    /\ IdleLater

SpecBlink == InitBlink /\ [][NextExpr]_vars

SpecExpr == InitExpr /\ [][NextExpr]_vars

---------------------------------------------------------------------------
(* Inputs of the pose mapper *)

\* the longest landmark sequence tried (MediaPipe sends 33)
MaxLandmarks == 34

ArmIndices == LeftShoulder..RightWrist

\* positions of landmarks 11..16, in units of 0.1 m
\* the bent-arm pose of test_adapter_with_valid_landmarks
BentArms ==
    [i \in ArmIndices |->
        CASE i = LeftShoulder -> <<-2, 5, 0>> [] i = LeftElbow -> <<-4, 3, 0>>
          [] i = LeftWrist -> <<-5, 1, 0>>    [] i = RightShoulder -> <<2, 5, 0>>
          [] i = RightElbow -> <<4, 3, 0>>    [] i = RightWrist -> <<5, 1, 0>>]

\* arms stretched out sideways: every bone in its rest direction
TPose ==
    [i \in ArmIndices |->
        CASE i = LeftShoulder -> <<-2, 5, 0>> [] i = LeftElbow -> <<-5, 5, 0>>
          [] i = LeftWrist -> <<-8, 5, 0>>    [] i = RightShoulder -> <<2, 5, 0>>
          [] i = RightElbow -> <<5, 5, 0>>    [] i = RightWrist -> <<8, 5, 0>>]

\* seen from behind with the arms folded inwards: every bone opposite to its
\* rest direction
Reversed ==
    [i \in ArmIndices |->
        CASE i = LeftShoulder -> <<2, 5, 0>>  [] i = LeftElbow -> <<5, 5, 0>>
          [] i = LeftWrist -> <<8, 5, 0>>     [] i = RightShoulder -> <<-2, 5, 0>>
          [] i = RightElbow -> <<-5, 5, 0>>   [] i = RightWrist -> <<-8, 5, 0>>]

\* all six landmarks at one point: zero-length bones
Collapsed == [i \in ArmIndices |-> <<0, 0, 0>>]

\* arms raised forward and up, off the XY plane
Raised ==
    [i \in ArmIndices |->
        CASE i = LeftShoulder -> <<-2, 5, 0>> [] i = LeftElbow -> <<-2, 7, 2>>
          [] i = LeftWrist -> <<-1, 9, 3>>    [] i = RightShoulder -> <<2, 5, 1>>
          [] i = RightElbow -> <<3, 5, 4>>    [] i = RightWrist -> <<3, 8, 4>>]

PoseShapes == { BentArms, TPose, Reversed, Collapsed, Raised }

\* 0.45, 0.5 and 0.9
VisValues == { 9, 10, 18 }

\* the visibilities of landmarks 11..16: each of 0.45, 0.5, 0.9; all 0.0; all 1.0;
\* all infinite
Visibilities ==
    [ArmIndices -> VisValues]
    \cup { [i \in ArmIndices |-> v] : v \in {Zero, One, PosInf, NegInf} }

\* the landmarks other than 11..16 (face, hands, hips, legs, feet)
Fillers ==
    { [x |-> 0, y |-> 0, z |-> 0, visibility |-> Zero],
      [x |-> 1, y |-> -3, z |-> 2, visibility |-> One] }

MkLandmarks(len, shape, vis, filler) ==
    [i \in 1..len |->
        IF (i - 1) \in ArmIndices
        THEN [x |-> shape[i - 1][1], y |-> shape[i - 1][2], z |-> shape[i - 1][3],
              visibility |-> vis[i - 1]]
        ELSE filler]

\* sequences of 33 .. MaxLandmarks landmarks with every visibility pattern, and
\* sequences of every shorter length with uniform visibilities
PoseInputs ==
    { MkLandmarks(len, shape, vis, filler) :
        len \in MinLandmarks..MaxLandmarks, shape \in PoseShapes,
        vis \in Visibilities, filler \in Fillers }
    \cup
    { MkLandmarks(len, shape, [i \in ArmIndices |-> v], filler) :
        len \in 0..(MinLandmarks - 1), shape \in PoseShapes,
        v \in {Zero, 10, 18}, filler \in Fillers }

InitPose ==
    /\ landmarks \in PoseInputs
    /\ rotations = NoVal
    /\ pose_pc = "call"
    /\ raw_blendshapes = NoVal
    /\ expressions = NoVal
    /\ expr_pc = "idle"
    /\ calls = <<>>
    /\ IdleRot
    /\ IdleApp
    /\ IdleLater

\* one call of MediaPipePoseAdapter::landmarks_to_bone_rotations
LandmarksToBoneRotations ==
    /\ pose_pc = "call"
    /\ IF landmarks_to_bone_rotations_panics(landmarks)
       THEN rotations' = NoVal /\ pose_pc' = "panic"
       ELSE rotations' = landmarks_to_bone_rotations(landmarks) /\ pose_pc' = "done"
    /\ UNCHANGED <<landmarks, raw_blendshapes, expressions, expr_pc, calls, rotVars, appVars, laterVars>>

NextPose == LandmarksToBoneRotations

SpecPose == InitPose /\ [][NextPose]_vars

\* either mapper, called once on any of its inputs
InitMappers == InitExpr \/ InitPose

NextMappers == NextExpr \/ NextPose

SpecMappers == InitMappers /\ [][NextMappers]_vars

---------------------------------------------------------------------------
(* Inputs of the rotation primitive *)

\* the largest coordinate of the lattice directions
MaxCoord == 1

\* every direction with coordinates in -MaxCoord .. MaxCoord
LatticeDirs ==
    { v \in (-MaxCoord..MaxCoord) \X (-MaxCoord..MaxCoord) \X (-MaxCoord..MaxCoord) :
        v # <<0, 0, 0>> }

\* directions close to X without being X, and their opposites
SlantedDirs == { <<3, 1, 0>>, <<-3, -1, 0>>, <<3, 0, -1>>, <<-3, 0, 1>> }

\* directions whose cosine with +-X lies next to 0.9999: 70/sqrt(4901) = 0.999898
\* and 71/sqrt(5042) = 0.999901
NearDirs == { <<70, 1, 0>>, <<71, 1, 0>>, <<-70, 1, 0>>, <<-71, 1, 0>> }

\* the direction of a stretched-out left upper arm
RestDirs == { sub(TPose[LeftElbow], TPose[LeftShoulder]) }

RotInputs ==
    { <<normalize(f), normalize(t)>> :
        f \in LatticeDirs \cup SlantedDirs, t \in LatticeDirs \cup SlantedDirs }
    \cup
    { <<UnitVec3(x, 0, 0), normalize(t)>> : x \in {-1, 1}, t \in NearDirs \cup RestDirs }
    \cup
    { <<normalize(f), UnitVec3(x, 0, 0)>> : x \in {-1, 1}, f \in NearDirs }

InitRot ==
    /\ \E p \in RotInputs : rot_from = p[1] /\ rot_to = p[2]
    /\ rot_result = NoVal
    /\ rot_pc = "call"
    /\ raw_blendshapes = NoVal
    /\ expressions = NoVal
    /\ expr_pc = "idle"
    /\ landmarks = NoVal
    /\ rotations = NoVal
    /\ pose_pc = "idle"
    /\ calls = <<>>
    /\ IdleApp
    /\ IdleLater

RotationBetweenVectors ==
    /\ rot_pc = "call"
    /\ rot_result' = rotation_between_vectors(rot_from, rot_to)
    /\ rot_pc' = "done"
    /\ UNCHANGED <<rot_from, rot_to, raw_blendshapes, expressions, expr_pc,
                   landmarks, rotations, pose_pc, calls, appVars, laterVars>>

NextRot == RotationBetweenVectors

SpecRot == InitRot /\ [][NextRot]_vars

---------------------------------------------------------------------------
(* Sequences of mapper calls on one adapter *)

\* the number of calls made in one run
MaxCalls == 4

CallFrames == TestFrames \cup { [n \in {} |-> Zero], [n \in {"jawOpen"} |-> 18] }

CallLandmarks ==
    { MkLandmarks(MinLandmarks, BentArms, [i \in ArmIndices |-> 18],
                  [x |-> 0, y |-> 0, z |-> 0, visibility |-> Zero]),
      MkLandmarks(MinLandmarks, TPose, [i \in ArmIndices |-> One],
                  [x |-> 0, y |-> 0, z |-> 0, visibility |-> Zero]),
      MkLandmarks(MinLandmarks, Raised, [i \in ArmIndices |-> IF i = LeftElbow THEN 9 ELSE 18],
                  [x |-> 1, y |-> -3, z |-> 2, visibility |-> One]),
      MkLandmarks(0, BentArms, [i \in ArmIndices |-> Zero],
                  [x |-> 0, y |-> 0, z |-> 0, visibility |-> Zero]) }

InitCalls ==
    /\ raw_blendshapes = NoVal
    /\ expressions = NoVal
    /\ expr_pc = "idle"
    /\ landmarks = NoVal
    /\ rotations = NoVal
    /\ pose_pc = "idle"
    /\ calls = <<>>
    /\ IdleRot
    /\ IdleApp
    /\ IdleLater

\* adapter.to_vrm_expressions(&raw) on the shared ArkitToVrmAdapter (a unit struct)
CallToVrmExpressions(raw) ==
    /\ Len(calls) < MaxCalls
    /\ raw_blendshapes' = raw
    /\ expressions' = to_vrm_expressions(raw)
    /\ expr_pc' = "done"
    /\ calls' = Append(calls, [fn |-> "to_vrm_expressions", input |-> raw,
                               output |-> expressions'])
    /\ UNCHANGED <<landmarks, rotations, pose_pc, rotVars, appVars, laterVars>>

\* MediaPipePoseAdapter::landmarks_to_bone_rotations(&lms) (an associated function)
CallLandmarksToBoneRotations(lms) ==
    /\ Len(calls) < MaxCalls
    /\ landmarks' = lms
    /\ rotations' = landmarks_to_bone_rotations(lms)
    /\ pose_pc' = "done"
    /\ calls' = Append(calls, [fn |-> "landmarks_to_bone_rotations", input |-> lms,
                               output |-> rotations'])
    /\ UNCHANGED <<raw_blendshapes, expressions, expr_pc, rotVars, appVars, laterVars>>

NextCalls ==
    \/ \E raw \in CallFrames : CallToVrmExpressions(raw)
    \/ \E lms \in CallLandmarks : CallLandmarksToBoneRotations(lms)

SpecCalls == InitCalls /\ [][NextCalls]_vars

---------------------------------------------------------------------------
(* The tracker's output, the reader thread, the channel and the draining     *)
(* system                                                                    *)

\* the number of lines the tracker process writes before it exits
MaxLines == 3

\* a line of the tracker's standard output: `readable` is false when reading it
\* fails (lines() yields Err, e.g. invalid UTF-8), `json` is false when its text
\* is not a JSON object of the right types; `keys` are the fields the object has
Line(readable, json, keys, ts, blendshapes, pose) ==
    [readable |-> readable, json |-> json, keys |-> keys, ts |-> ts,
     blendshapes |-> blendshapes, pose_world_landmarks |-> pose]

SmileFrame == [n \in {"mouthSmileLeft", "mouthSmileRight"} |-> 14]

EmptyFrame == [n \in {} |-> Zero]

StandingPose ==
    MkLandmarks(MinLandmarks, TPose, [i \in ArmIndices |-> 18],
                [x |-> 0, y |-> 0, z |-> 0, visibility |-> Zero])

\* the lines the tracker can write as its ts-th line
LinesAt(ts) ==
    { Line(TRUE, TRUE, {"ts", "blendshapes", "pose_landmarks", "pose_world_landmarks"},
           ts, SmileFrame, StandingPose),
      Line(TRUE, TRUE, {"ts", "blendshapes"}, ts, EmptyFrame, <<>>),
      Line(FALSE, FALSE, {}, ts, EmptyFrame, <<>>),
      Line(TRUE, FALSE, {}, ts, EmptyFrame, <<>>),
      Line(TRUE, TRUE, {"blendshapes", "pose_world_landmarks"}, ts, SmileFrame, StandingPose),
      Line(TRUE, TRUE, {"ts", "pose_world_landmarks"}, ts, EmptyFrame, StandingPose) }

\* every output of at most MaxLines lines; the ts of a line is its position
Outputs ==
    UNION { { out \in [1..n -> UNION { LinesAt(ts) : ts \in 1..n }] :
                \A ts \in 1..n : out[ts] \in LinesAt(ts) } : n \in 0..MaxLines }

\* serde_json::from_str::<TrackerFrame>: <<>> is Err, <<frame>> is Ok(frame).
\* ts and blendshapes are required; the pose fields default to empty lists
from_str(line) ==
    IF ~line.json THEN <<>>
    ELSE IF "ts" \notin line.keys \/ "blendshapes" \notin line.keys THEN <<>>
    ELSE << [ts |-> line.ts,
             blendshapes |-> line.blendshapes,
             pose_world_landmarks |->
                 IF "pose_world_landmarks" \in line.keys
                 THEN line.pose_world_landmarks ELSE <<>>] >>

\* mutant: the reader leaves its loop at a line that does not parse
after_invalid_json_break == "ended"

\* `continue`: the reader goes on to the next line
after_invalid_json == "reading"

after_unreadable == "reading"

\* mutant: the channel hands out the newest frame first
try_recv_newest(ch) == [frame |-> ch[Len(ch)], rest |-> SubSeq(ch, 1, Len(ch) - 1)]

\* tx.send on an unbounded channel: appends, whatever the queue's length
send(ch, frame) == Append(ch, frame)

\* rx.try_recv on a non-empty channel: the oldest frame
try_recv(ch) == [frame |-> Head(ch), rest |-> Tail(ch)]

InitAppOn(outputs) ==
    /\ \E out \in outputs : stdout = [lines |-> out, pos |-> 0]
    /\ reader_pc = "reading"
    /\ channel = <<>>
    /\ sent = <<>>
    /\ drain_pc = "idle"
    /\ current_expressions = <<>>
    /\ processed = <<>>
    /\ expr_runs = <<>>
    /\ pose_runs = <<>>
    /\ drain_run = [state |-> "none"]
    /\ IdleMappers
    /\ IdleRot

InitApp == InitAppOn(Outputs) /\ IdleLater

appRest == <<raw_blendshapes, expressions, expr_pc, landmarks, rotations, pose_pc, calls,
             rotVars, laterVars>>

\* one iteration of `for line in reader.lines()`
ReadLine ==
    /\ reader_pc = "reading"
    /\ stdout.pos < Len(stdout.lines)
    /\ LET line == stdout.lines[stdout.pos + 1]
           frame == from_str(line)
       IN  /\ stdout' = [stdout EXCEPT !.pos = @ + 1]
           /\ IF ~line.readable
              THEN reader_pc' = after_unreadable /\ UNCHANGED <<channel, sent>>
              ELSE IF frame = <<>>
              THEN reader_pc' = after_invalid_json /\ UNCHANGED <<channel, sent>>
              ELSE /\ channel' = send(channel, frame[1])
                   /\ sent' = Append(sent, frame[1])
                   /\ UNCHANGED reader_pc
    /\ UNCHANGED <<drain_pc, current_expressions, processed, expr_runs, pose_runs,
                   drain_run, appRest>>

\* the tracker has exited and its output is read: lines() ends, the thread too
ReadEof ==
    /\ reader_pc = "reading"
    /\ stdout.pos = Len(stdout.lines)
    /\ reader_pc' = "ended"
    /\ UNCHANGED <<stdout, channel, sent, drain_pc, current_expressions, processed,
                   expr_runs, pose_runs, drain_run, appRest>>

\* mutant: the loop body runs at most once in a run
drain_once(ch, n) == ch # <<>> /\ n = 0

\* while let Ok(frame) = rx.rx.try_recv(): the loop goes on while a frame is queued
drain_continues(ch, n) == ch # <<>>

\* dump_tracker_frames is run by the Update schedule
DrainBegin ==
    /\ drain_pc = "idle"
    /\ drain_pc' = "draining"
    /\ drain_run' = [state |-> "running", start |-> current_expressions, frames |-> <<>>]
    /\ UNCHANGED <<stdout, reader_pc, channel, sent, current_expressions, processed,
                   expr_runs, pose_runs, appRest>>

\* one iteration of `while let Ok(frame) = rx.rx.try_recv()`
DrainFrame ==
    /\ drain_pc = "draining"
    /\ drain_continues(channel, Len(drain_run.frames))
    /\ LET r == try_recv(channel)
           vrm_expressions == to_vrm_expressions(r.frame.blendshapes)
       IN  /\ channel' = r.rest
           /\ processed' = Append(processed, r.frame)
           /\ expr_runs' = Append(expr_runs, [ts |-> r.frame.ts,
                                              input |-> r.frame.blendshapes,
                                              output |-> vrm_expressions])
           /\ current_expressions' = vrm_expressions
           /\ drain_run' = [drain_run EXCEPT !.frames = Append(@, r.frame)]
    /\ UNCHANGED <<stdout, reader_pc, sent, drain_pc, pose_runs, appRest>>

\* try_recv finds the channel empty: the loop and the system end
DrainEnd ==
    /\ drain_pc = "draining"
    /\ ~drain_continues(channel, Len(drain_run.frames))
    /\ drain_pc' = "idle"
    /\ drain_run' = [state |-> "done", start |-> drain_run.start,
                     frames |-> drain_run.frames, left |-> channel]
    /\ UNCHANGED <<stdout, reader_pc, channel, sent, current_expressions, processed,
                   expr_runs, pose_runs, appRest>>

NextApp == ReadLine \/ ReadEof \/ DrainBegin \/ DrainFrame \/ DrainEnd

SpecApp == InitApp /\ [][NextApp]_vars

---------------------------------------------------------------------------
(* src/live_expressions.rs: LiveExpressionWeights *)

\* mutant: the weight is stored as given
set_weight_unclamped(weights, expression, weight) ==
    [n \in DOMAIN weights \cup {expression} |->
        IF n = expression THEN weight ELSE weights[n]]

\* self.weights.insert(expression.into(), weight.clamp(0.0, 1.0))
set_weight(weights, expression, weight) ==
    [n \in DOMAIN weights \cup {expression} |->
        IF n = expression THEN clamp(weight, Zero, One) ELSE weights[n]]

\* self.weights.get(expression).copied().unwrap_or(0.0)
get_weight(weights, expression) ==
    IF expression \in DOMAIN weights THEN weights[expression] ELSE Zero

\* self.weights.clear()
clear(weights) == [n \in {} |-> Zero]

\* for expr in expressions { self.set_weight(expr.preset.as_str(), expr.weight) }
RECURSIVE set_weights_from(_, _)
set_weights_from(weights, exprs) ==
    IF exprs = <<>> THEN weights
    ELSE set_weights_from(set_weight(weights, as_str(Head(exprs).preset), Head(exprs).weight),
                          Tail(exprs))

\* mutant: the old weights are kept and the listed ones written over them
update_from_expressions_keep(weights, exprs) == set_weights_from(weights, exprs)

update_from_expressions(weights, exprs) == set_weights_from(clear(weights), exprs)

\* the number of calls made on one component
MaxLiveCalls == 2

\* names given to set_weight and get_weight: canonical names and one that is not
LiveNames == { "happy", "blink", "custom" }

\* -inf, -0.5, 0.5, 1.5, +inf
LiveWeightValues == { NegInf, -10, 10, 30, PosInf }

\* expressions as the adapter builds them, with weights 0.3, 0.8 and 1.0
LiveExpressions ==
    { VrmExpression_new(p, w) : p \in {"Happy", "Blink"}, w \in {6, 16, 30} }

MaxListLen == 2

\* every list of at most MaxListLen expressions, among them the list of
\* test_update_from_expressions (happy 0.8, blink 0.3)
LiveExpressionLists ==
    UNION { [1..n -> LiveExpressions] : n \in 0..MaxListLen }

InitLive ==
    /\ live_weights = clear(<<>>)
    /\ live_before = clear(<<>>)
    /\ live_last = NoVal
    /\ live_n = 0
    /\ IdleMappers
    /\ IdleRot
    /\ IdleApp
    /\ IdleAvatar
    /\ IdleLoad
    /\ IdleGlb

liveRest == <<raw_blendshapes, expressions, expr_pc, landmarks, rotations, pose_pc, calls,
              rotVars, appVars, avatarVars, loadVars, glbVars>>

SetWeight(expression, weight) ==
    /\ live_n < MaxLiveCalls
    /\ live_weights' = set_weight(live_weights, expression, weight)
    /\ live_before' = live_weights
    /\ live_last' = [fn |-> "set_weight", arg |-> <<expression, weight>>, ret |-> NoVal]
    /\ live_n' = live_n + 1
    /\ UNCHANGED liveRest

GetWeight(expression) ==
    /\ live_n < MaxLiveCalls
    /\ live_last' = [fn |-> "get_weight", arg |-> <<expression>>,
                     ret |-> <<get_weight(live_weights, expression)>>]
    /\ live_before' = live_weights
    /\ live_n' = live_n + 1
    /\ UNCHANGED <<live_weights, liveRest>>

Clear ==
    /\ live_n < MaxLiveCalls
    /\ live_weights' = clear(live_weights)
    /\ live_before' = live_weights
    /\ live_last' = [fn |-> "clear", arg |-> <<>>, ret |-> NoVal]
    /\ live_n' = live_n + 1
    /\ UNCHANGED liveRest

UpdateFromExpressions(exprs) ==
    /\ live_n < MaxLiveCalls
    /\ live_weights' = update_from_expressions(live_weights, exprs)
    /\ live_before' = live_weights
    /\ live_last' = [fn |-> "update_from_expressions", arg |-> exprs, ret |-> NoVal]
    /\ live_n' = live_n + 1
    /\ UNCHANGED liveRest

NextLive ==
    \/ \E expression \in LiveNames, weight \in LiveWeightValues : SetWeight(expression, weight)
    \/ \E expression \in LiveNames : GetWeight(expression)
    \/ Clear
    \/ \E exprs \in LiveExpressionLists : UpdateFromExpressions(exprs)

SpecLive == InitLive /\ [][NextLive]_vars

---------------------------------------------------------------------------
(* src/main.rs: apply_expressions on the meshes of the loaded VRM.  A morph  *)
(* weight is kept in units of 1/400, the product of an expression weight and *)
(* a base weight of 1/20 each                                                *)

MorphOne == One * One

\* a * b
Mul(a, b) ==
    IF a = NaN \/ b = NaN THEN NaN
    ELSE IF IsFinite(a) /\ IsFinite(b) THEN a * b
    ELSE IF a = 0 \/ b = 0 THEN NaN
    ELSE IF (a > 0) = (b > 0) THEN PosInf ELSE NegInf

\* expression_weights: every current expression inserted under its canonical
\* name, a later one replacing an earlier one of the same name
expression_weights(exprs) ==
    LET names == { as_str(exprs[k].preset) : k \in DOMAIN exprs }
        last(n) == CHOOSE k \in DOMAIN exprs :
                       /\ as_str(exprs[k].preset) = n
                       /\ \A j \in DOMAIN exprs : as_str(exprs[j].preset) = n => j <= k
    IN  [n \in names |-> exprs[last(n)].weight]

RECURSIVE add_bindings(_, _, _, _)
\* for &(morph_idx, base_weight) in morph_bindings {
\*     if morph_idx < num_morph_targets { new_weights[morph_idx] += expr_weight * base_weight } }
\* (morph_idx counts from 0, the sequence new_weights from 1)
add_bindings(new_weights, expr_weight, morph_bindings, k) ==
    IF k > Len(morph_bindings) THEN new_weights
    ELSE LET morph_idx == morph_bindings[k][1]
             base_weight == morph_bindings[k][2]
         IN  add_bindings(IF morph_idx < Len(new_weights)
                          THEN [new_weights EXCEPT
                                   ![morph_idx + 1] = Add(@, Mul(expr_weight, base_weight))]
                          ELSE new_weights,
                          expr_weight, morph_bindings, k + 1)

RECURSIVE add_expressions(_, _, _, _)
\* for (expr_name, expr_weight) in expression_weights.iter(): the names still to
\* visit are `todo`; the sums do not depend on the order of the visits
add_expressions(new_weights, weights_by_name, expr_map, todo) ==
    IF todo = {} THEN new_weights
    ELSE LET expr_name == CHOOSE n \in todo : TRUE
         IN  add_expressions(IF expr_name \in DOMAIN expr_map
                             THEN add_bindings(new_weights, weights_by_name[expr_name],
                                               expr_map[expr_name], 1)
                             ELSE new_weights,
                             weights_by_name, expr_map, todo \ {expr_name})

\* the body of the loop over the meshes: the new contents of one MorphWeights
mesh_weights(exprs, expr_map, old_weights) ==
    LET weights_by_name == expression_weights(exprs)
        num_morph_targets == Len(old_weights)
        new_weights == add_expressions([i \in 1..num_morph_targets |-> Zero],
                                       weights_by_name, expr_map, DOMAIN weights_by_name)
    IN  [i \in 1..num_morph_targets |-> clamp(new_weights[i], Zero, MorphOne)]

\* apply_expressions: the MorphWeights of every mesh after the system has run
apply_expressions(exprs, expr_map, weights) ==
    IF exprs = <<>> THEN weights
    ELSE [m \in DOMAIN weights |-> mesh_weights(exprs, expr_map, weights[m])]

TalkFrame == [n \in {"mouthSmileLeft", "mouthSmileRight", "jawOpen"} |->
                 IF n = "jawOpen" THEN 18 ELSE 14]

\* the lines of a tracker that watches a face: a smile, a neutral face, a
\* smile with the mouth open
FaceLinesAt(ts) ==
    { Line(TRUE, TRUE, {"ts", "blendshapes"}, ts, SmileFrame, <<>>),
      Line(TRUE, TRUE, {"ts", "blendshapes"}, ts, EmptyFrame, <<>>),
      Line(TRUE, TRUE, {"ts", "blendshapes"}, ts, TalkFrame, <<>>) }

FaceOutputs ==
    UNION { { out \in [1..n -> UNION { FaceLinesAt(ts) : ts \in 1..n }] :
                \A ts \in 1..n : out[ts] \in FaceLinesAt(ts) } : n \in 0..MaxLines }

\* the morph target binds of the loaded VRM's expressions, as build_expression_maps
\* collects them: (index, weight) pairs per expression name.  The weights are
\* the file's: negative, above 1.0 and (for a literal such as 1e39) infinite
ExpressionMaps ==
    { [n \in {"happy", "aa"} |->
          IF n = "happy" THEN << <<0, 20>>, <<2, 10>> >> ELSE << <<0, 20>>, <<1, -20>> >>],
      [n \in {"happy", "sad"} |->
          IF n = "happy" THEN << <<1, 40>>, <<3, 20>> >> ELSE << <<0, 20>> >>],
      [n \in {"happy"} |-> << <<0, PosInf>>, <<0, NegInf>>, <<1, PosInf>> >>] }

\* the number of morph targets of each mesh of the scene
MorphTargets == <<2, 3>>

InitAvatar ==
    /\ InitAppOn(FaceOutputs)
    /\ IdleLive
    /\ IdleLoad
    /\ IdleGlb
    /\ expression_to_morphs \in ExpressionMaps
    /\ morph_weights = [m \in DOMAIN MorphTargets |-> [i \in 1..MorphTargets[m] |-> Zero]]
    /\ applied = [ran |-> FALSE]

\* apply_expressions is run by the Update schedule; it reads CurrentExpressions,
\* which dump_tracker_frames writes, so the two systems never run at once
ApplyExpressions ==
    /\ drain_pc = "idle"
    /\ morph_weights' = apply_expressions(current_expressions, expression_to_morphs,
                                          morph_weights)
    /\ applied' = [ran |-> TRUE, read |-> current_expressions, run |-> drain_run]
    /\ UNCHANGED <<expression_to_morphs, raw_blendshapes, expressions, expr_pc, landmarks,
                   rotations, pose_pc, calls, rotVars, appVars, liveVars, loadVars, glbVars>>

NextAvatar == NextApp \/ ApplyExpressions

SpecAvatar == InitAvatar /\ [][NextAvatar]_vars

---------------------------------------------------------------------------
(* src/main.rs: the file dialog, receive_file_dialog_result and              *)
(* load_vrm_from_path.  Commands are deferred: what a system queues is       *)
(* applied to the world after the system has returned                        *)

\* the number of file dialogs that are opened and closed
MaxDialogs == 3

\* the files the user can pick
VrmPaths == { "a.vrm", "b.vrm" }

\* rfd::FileDialog::pick_file(): <<>> is None (cancelled), <<p>> is Some(p)
DialogOutcomes == { <<>> } \cup { <<p>> : p \in VrmPaths }

\* create_dir_all and copy of load_vrm_from_path: both succeed, or the first
\* or the second fails
FsOutcomes == { "ok", "create_dir_all", "copy" }

RECURSIVE receive_file_dialog_result(_, _)
\* while let Ok(result) = rx.try_recv() { if let Some(path) = result { vrm_path.path = Some(path) } }
\* : the slot after the queued results `rx` have been received
receive_file_dialog_result(rx, slot) ==
    IF rx = <<>> THEN slot
    ELSE receive_file_dialog_result(Tail(rx), IF Head(rx) # <<>> THEN Head(rx) ELSE slot)

RECURSIVE SetToSeq(_)
\* the elements of a finite set in the order a query iterates them
SetToSeq(set) ==
    IF set = {} THEN <<>>
    ELSE LET e == CHOOSE x \in set : TRUE IN <<e>> \o SetToSeq(set \ {e})

\* mutant: the current entities are left in the world
despawn_none(entities) == <<>>

\* for entity in current_vrm_query.iter() { commands.entity(entity).despawn() }
despawn_all(entities) ==
    LET es == SetToSeq(entities)
    IN  [k \in DOMAIN es |-> [cmd |-> "despawn", entity |-> es[k]]]

\* the commands load_vrm_from_path queues for `path`: the despawns come before
\* the two file operations, the spawn after them
load_commands(entities, path, fs, id) ==
    despawn_all(entities)
        \o (IF fs = "ok"
            THEN << [cmd |-> "spawn", entity |-> [id |-> id, path |-> path]] >>
            ELSE <<>>)

RECURSIVE apply_commands(_, _)
\* the world's CurrentVrmEntity entities after the queued commands are applied
apply_commands(entities, queue) ==
    IF queue = <<>> THEN entities
    ELSE apply_commands(IF Head(queue).cmd = "despawn"
                        THEN entities \ {Head(queue).entity}
                        ELSE entities \cup {Head(queue).entity},
                        Tail(queue))

InitLoad ==
    /\ IdleLoad
    /\ IdleMappers
    /\ IdleRot
    /\ IdleApp
    /\ IdleLive
    /\ IdleAvatar
    /\ IdleGlb

loadRest == <<raw_blendshapes, expressions, expr_pc, landmarks, rotations, pose_pc, calls,
              rotVars, appVars, liveVars, avatarVars, glbVars>>

\* a dialog thread of handle_file_dialog_input: pick_file() returns and the
\* result is sent
DialogResult(file) ==
    /\ Len(dialog_results) < MaxDialogs
    /\ dialog_rx' = Append(dialog_rx, file)
    /\ dialog_results' = Append(dialog_results, file)
    /\ UNCHANGED <<vrm_path, selected, vrm_entities, commands, load_log, loadRest>>

\* receive_file_dialog_result is run by the Update schedule
ReceiveFileDialogResult ==
    /\ dialog_rx # <<>>
    /\ vrm_path' = receive_file_dialog_result(dialog_rx, vrm_path)
    /\ selected' = selected \o SelectSeq(dialog_rx, LAMBDA r : r # <<>>)
    /\ dialog_rx' = <<>>
    /\ UNCHANGED <<dialog_results, vrm_entities, commands, load_log, loadRest>>

\* load_vrm_from_path is run by the Update schedule, after the commands of its
\* previous run have been applied, and finds a path in the slot
LoadVrmFromPath(fs) ==
    /\ commands = <<>>
    /\ vrm_path # <<>>
    /\ vrm_path' = <<>>
    /\ selected' = <<>>
    /\ commands' = load_commands(vrm_entities, vrm_path[1], fs, Len(load_log) + 1)
    /\ load_log' = Append(load_log, [path |-> vrm_path[1], selected |-> selected,
                                     fs |-> fs, found |-> vrm_entities])
    /\ UNCHANGED <<dialog_rx, dialog_results, vrm_entities, loadRest>>

\* the queued commands are applied to the world
ApplyDeferred ==
    /\ commands # <<>>
    /\ vrm_entities' = apply_commands(vrm_entities, commands)
    /\ commands' = <<>>
    /\ UNCHANGED <<dialog_rx, dialog_results, vrm_path, selected, load_log, loadRest>>

NextLoad ==
    \/ \E file \in DialogOutcomes : DialogResult(file)
    \/ ReceiveFileDialogResult
    \/ \E fs \in FsOutcomes : LoadVrmFromPath(fs)
    \/ ApplyDeferred

SpecLoad == InitLoad /\ [][NextLoad]_vars

---------------------------------------------------------------------------
(* crates/vrm_loader/src/loader.rs: parse_glb.  A byte string is a sequence  *)
(* of numbers in 0..255; byte i of the code is element i + 1 of the sequence. *)
(* usize has 64 bits, so no sum of an offset and a u32 length overflows; the *)
(* lengths written in the inputs stay below 2^31                             *)

\* u32::from_le_bytes([b[1], b[2], b[3], b[4]])
from_le_bytes(b) == b[1] + 256 * b[2] + 65536 * b[3] + 16777216 * b[4]

\* bytes[from..to], for from <= to <= bytes.len()
slice(bytes, from, to) == SubSeq(bytes, from + 1, to)

Magic == <<103, 108, 84, 70>>

JsonType == 1313821514

BinType == 5130562

\* if bytes.len() < 12, if &bytes[0..4] != b"glTF", if version != 2: the Err
\* parse_glb returns for the header, or "none"
header_error(bytes) ==
    IF Len(bytes) < 12 THEN "File too small to be GLB"
    ELSE IF slice(bytes, 0, 4) # Magic THEN "Invalid GLB magic number"
    ELSE IF from_le_bytes(slice(bytes, 4, 8)) # 2 THEN "Unsupported GLB version"
    ELSE "none"

\* mutant: only the length field of the chunk header is required to fit
header_past_end_4(offset, len) == offset + 4 > len

\* if offset + 8 > bytes.len() { break; }
header_past_end(offset, len) == offset + 8 > len

\* if offset + chunk_length > bytes.len() { break; }
body_past_end(offset, chunk_length, len) == offset + chunk_length > len

\* the number of chunks written after the header
MaxChunks == 2

\* the four bytes of n, least significant first
to_le_bytes(n) ==
    <<n % 256, (n \div 256) % 256, (n \div 65536) % 256, (n \div 16777216) % 256>>

ChunkTypes == { to_le_bytes(JsonType), to_le_bytes(BinType), <<88, 88, 88, 88>> }

\* chunk bodies with the length written in front of them: the true length, one
\* more than it, and 2^30
ChunkBodies ==
    { <<0, <<>>>>, <<2, <<7, 8>>>>, <<3, <<5, 6>>>>, <<1073741824, <<9>>>> }

Chunks == { to_le_bytes(b[1]) \o t \o b[2] : t \in ChunkTypes, b \in ChunkBodies }

RECURSIVE Concat(_)
Concat(seqs) == IF seqs = <<>> THEN <<>> ELSE Head(seqs) \o Concat(Tail(seqs))

ChunkLists == UNION { [1..n -> Chunks] : n \in 0..MaxChunks }

GoodHeader == Magic \o to_le_bytes(2) \o to_le_bytes(12)

\* headers with another magic, another version, a version that is 2 in its
\* first byte only
BadHeaders ==
    { <<103, 108, 84, 88>> \o to_le_bytes(2) \o to_le_bytes(12),
      Magic \o to_le_bytes(1) \o to_le_bytes(12),
      Magic \o <<2, 0, 0, 1>> \o to_le_bytes(12) }

\* the files: a header and chunks, cut off at any byte (a cut before the last
\* chunk gives a file with fewer chunks); files with a bad header, whole
GlbInputs ==
    { SubSeq(GoodHeader, 1, n) : n \in 0..12 }
        \cup UNION { LET before == GoodHeader \o Concat(SubSeq(cs, 1, Len(cs) - 1))
                         last == cs[Len(cs)]
                     IN  { before \o SubSeq(last, 1, n) : n \in 1..Len(last) }
                     : cs \in ChunkLists \ {<<>>} }
        \cup { h \o c : h \in BadHeaders, c \in Chunks \cup {<<>>} }

InitGlb ==
    /\ glb_bytes \in GlbInputs
    /\ glb_offset = 0
    /\ glb_prev = <<>>
    /\ glb_json_data = <<>>
    /\ glb_bin_data = <<>>
    /\ glb_pc = "call"
    /\ IdleMappers
    /\ IdleRot
    /\ IdleApp
    /\ IdleLive
    /\ IdleAvatar
    /\ IdleLoad

glbRest == <<raw_blendshapes, expressions, expr_pc, landmarks, rotations, pose_pc, calls,
             rotVars, appVars, liveVars, avatarVars, loadVars>>

\* parse_glb up to its loop: the header checks and `let mut offset = 12`
ParseGlbHeader ==
    /\ glb_pc = "call"
    /\ IF header_error(glb_bytes) # "none"
       THEN glb_pc' = "err" /\ UNCHANGED glb_offset
       ELSE glb_pc' = "loop" /\ glb_offset' = 12
    /\ UNCHANGED <<glb_bytes, glb_prev, glb_json_data, glb_bin_data, glbRest>>

\* the test of `while offset < bytes.len()` and, when it holds, one run of the
\* loop body; indexing past the end of bytes panics
ParseGlbChunk ==
    /\ glb_pc = "loop"
    /\ LET len == Len(glb_bytes)
           body == glb_offset + 8
       IN  IF ~(glb_offset < len)
           THEN glb_pc' = "ok" /\ UNCHANGED <<glb_offset, glb_prev, glb_json_data, glb_bin_data>>
           ELSE
           /\ glb_prev' = Append(glb_prev, glb_offset)
           /\ IF header_past_end(glb_offset, len)
              THEN glb_pc' = "ok" /\ UNCHANGED <<glb_offset, glb_json_data, glb_bin_data>>
              ELSE IF glb_offset + 7 >= len
              THEN glb_pc' = "panic" /\ UNCHANGED <<glb_offset, glb_json_data, glb_bin_data>>
              ELSE LET chunk_length == from_le_bytes(slice(glb_bytes, glb_offset, glb_offset + 4))
                       chunk_type == from_le_bytes(slice(glb_bytes, glb_offset + 4, glb_offset + 8))
                   IN  IF body_past_end(body, chunk_length, len)
                       THEN /\ glb_pc' = "ok"
                            /\ glb_offset' = body
                            /\ UNCHANGED <<glb_json_data, glb_bin_data>>
                       ELSE IF body + chunk_length > len
                       THEN /\ glb_pc' = "panic"
                            /\ glb_offset' = body
                            /\ UNCHANGED <<glb_json_data, glb_bin_data>>
                       ELSE /\ glb_json_data' =
                                  IF chunk_type = JsonType
                                  THEN slice(glb_bytes, body, body + chunk_length)
                                  ELSE glb_json_data
                            /\ glb_bin_data' =
                                  IF chunk_type = BinType
                                  THEN slice(glb_bytes, body, body + chunk_length)
                                  ELSE glb_bin_data
                            /\ glb_offset' = body + chunk_length
                            /\ UNCHANGED glb_pc
    /\ UNCHANGED <<glb_bytes, glbRest>>

NextGlb == ParseGlbHeader \/ ParseGlbChunk

SpecGlb == InitGlb /\ [][NextGlb]_vars

---------------------------------------------------------------------------
(* Properties of the expression mapper (checked under SpecExpr; C6 under     *)
(* SpecSparse, which runs the same call on the frames of SparseFrames)      *)

ExprDone == expr_pc = "done"

\* the coefficient of name n in the frame under conversion, 0.0 when absent
Coef(n) == IF n \in DOMAIN raw_blendshapes THEN raw_blendshapes[n] ELSE Zero

\* the f32 mean (a + b) * 0.5
Mean(a, b) == Half(Add(a, b))

\* the value v limited to [0, 1]
Clamped(v) == IF Lt(v, Zero) THEN Zero ELSE IF Gt(v, One) THEN One ELSE v

Emitted(p) == \E i \in DOMAIN expressions : expressions[i].preset = p

HasWeight(p, w) ==
    \A i \in DOMAIN expressions : expressions[i].preset = p => expressions[i].weight = w

\* preset p is in the result iff cond, and then with weight w
EmitRule(p, cond, w) == (Emitted(p) <=> cond) /\ (Emitted(p) => HasWeight(p, w))

\* C1: every expression returned by to_vrm_expressions has a weight in [0, 1],
\* whatever the coefficients (below 0, above 1, infinite); VrmExpression::new
\* maps every weight above 1 to 1 and every weight below 0 to 0.
C1_WeightsClamped ==
    /\ ExprDone =>
         \A i \in DOMAIN expressions :
            Ge(expressions[i].weight, Zero) /\ Ge(One, expressions[i].weight)
    /\ \A n \in DOMAIN raw_blendshapes : \A p \in {"Happy", "Sad"} :
         LET w == raw_blendshapes[n]
             e == VrmExpression_new(p, w)
         IN  /\ e.preset = p
             /\ Gt(w, One) => e.weight = One
             /\ Lt(w, Zero) => e.weight = Zero

\* C1 witness: a coefficient above 1.0 was emitted with weight 1.0
C1_Witness ==
    /\ ExprDone
    /\ Gt(Coef("eyeBlinkLeft"), One)
    /\ Emitted("BlinkLeft") /\ HasWeight("BlinkLeft", One)
    /\ Lt(Coef("jawOpen"), Zero)

\* C2: Happy is emitted iff the mean of mouthSmileLeft and mouthSmileRight is
\* strictly greater than 0.3, with that mean clamped to [0, 1] as its weight;
\* Sad likewise for mouthFrownLeft and mouthFrownRight.
C2_EmotionThreshold ==
    ExprDone =>
      /\ EmitRule("Happy",
                  Gt(Mean(Coef("mouthSmileLeft"), Coef("mouthSmileRight")), 6),
                  Clamped(Mean(Coef("mouthSmileLeft"), Coef("mouthSmileRight"))))
      /\ EmitRule("Sad",
                  Gt(Mean(Coef("mouthFrownLeft"), Coef("mouthFrownRight")), 6),
                  Clamped(Mean(Coef("mouthFrownLeft"), Coef("mouthFrownRight"))))

\* C2 witness: a smile mean of exactly 0.3 (0.3 and 0.3) that emitted no Happy
C2_Witness ==
    /\ ExprDone
    /\ Coef("mouthSmileLeft") = 6 /\ Coef("mouthSmileRight") = 6
    /\ ~Emitted("Happy")

\* the smallest modelled mean above the threshold (0.3 and 0.5) emits Happy = 0.4
C2_WitnessAbove ==
    /\ ExprDone
    /\ Coef("mouthSmileLeft") = 6 /\ Coef("mouthSmileRight") = 10
    /\ Emitted("Happy") /\ HasWeight("Happy", 8)

\* C3 as stated: BlinkLeft is emitted with the raw eyeBlinkLeft value iff
\* eyeBlinkLeft > 0, BlinkRight with the raw eyeBlinkRight value iff
\* eyeBlinkRight > 0, Blink with weight (left + right)/2 iff that mean is > 0.
C3_BlinkRawWeight ==
    ExprDone =>
      /\ EmitRule("BlinkLeft", Gt(Coef("eyeBlinkLeft"), Zero), Coef("eyeBlinkLeft"))
      /\ EmitRule("BlinkRight", Gt(Coef("eyeBlinkRight"), Zero), Coef("eyeBlinkRight"))
      /\ EmitRule("Blink",
                  Gt(Mean(Coef("eyeBlinkLeft"), Coef("eyeBlinkRight")), Zero),
                  Mean(Coef("eyeBlinkLeft"), Coef("eyeBlinkRight")))

\* C3 amended: the emission conditions are as stated and each weight is the
\* stated value clamped to [0, 1] (so the raw value whenever it is in [0, 1]).
C3_BlinkClampedWeight ==
    ExprDone =>
      /\ EmitRule("BlinkLeft", Gt(Coef("eyeBlinkLeft"), Zero),
                  Clamped(Coef("eyeBlinkLeft")))
      /\ EmitRule("BlinkRight", Gt(Coef("eyeBlinkRight"), Zero),
                  Clamped(Coef("eyeBlinkRight")))
      /\ EmitRule("Blink",
                  Gt(Mean(Coef("eyeBlinkLeft"), Coef("eyeBlinkRight")), Zero),
                  Clamped(Mean(Coef("eyeBlinkLeft"), Coef("eyeBlinkRight"))))

\* C3 witness: 0.8 and 0.9 gave BlinkLeft = 0.8, BlinkRight = 0.9, Blink = 0.85
C3_Witness ==
    /\ ExprDone
    /\ Coef("eyeBlinkLeft") = 16 /\ Coef("eyeBlinkRight") = 18
    /\ Emitted("BlinkLeft") /\ HasWeight("BlinkLeft", 16)
    /\ Emitted("BlinkRight") /\ HasWeight("BlinkRight", 18)
    /\ Emitted("Blink") /\ HasWeight("Blink", 17)

\* C4: Aa is emitted iff jawOpen > 0.5, Ou iff mouthPucker > 0.5, Oh iff
\* mouthFunnel > 0.5 (strict), each weighted by its own coefficient clamped to
\* [0, 1], and each decided by its own coefficient alone.
C4_LipSync ==
    ExprDone =>
      /\ EmitRule("Aa", Gt(Coef("jawOpen"), 10), Clamped(Coef("jawOpen")))
      /\ EmitRule("Ou", Gt(Coef("mouthPucker"), 10), Clamped(Coef("mouthPucker")))
      /\ EmitRule("Oh", Gt(Coef("mouthFunnel"), 10), Clamped(Coef("mouthFunnel")))

\* C4 witness: jawOpen of exactly 0.5 emitted no Aa while mouthFunnel of 0.9,
\* in the same frame, emitted Oh
C4_Witness ==
    /\ ExprDone
    /\ Coef("jawOpen") = 10 /\ ~Emitted("Aa")
    /\ Coef("mouthFunnel") = 18 /\ Emitted("Oh") /\ HasWeight("Oh", 18)

\* all three lip-sync coefficients above 0.5 emit Aa, Ou and Oh together
C4_WitnessAll ==
    /\ ExprDone
    /\ Coef("jawOpen") = 18 /\ Coef("mouthPucker") = 18 /\ Coef("mouthFunnel") = 18
    /\ Emitted("Aa") /\ Emitted("Ou") /\ Emitted("Oh")

\* the side towards which the eye named in an ARKit gaze coefficient turns: a
\* left eye looking in and a right eye looking out both turn to the subject's
\* right, a left eye looking out and a right eye looking in to the left
GazeSide(n) ==
    CASE n \in {"eyeLookInLeft", "eyeLookOutRight"} -> "right"
      [] n \in {"eyeLookOutLeft", "eyeLookInRight"} -> "left"
      [] n \in {"eyeLookUpLeft", "eyeLookUpRight"} -> "up"
      [] n \in {"eyeLookDownLeft", "eyeLookDownRight"} -> "down"
      [] OTHER -> "none"

\* the one side of the coefficients that drive each gaze preset
PresetSide(p) ==
    CASE p = "LookUp" -> "up"
      [] p = "LookDown" -> "down"
      [] p = "LookLeft" -> "right"
      [] p = "LookRight" -> "left"

GazePresets == {"LookUp", "LookDown", "LookLeft", "LookRight"}

\* a frame holding one coefficient alone emits a gaze preset only if that
\* coefficient turns the eye to the preset's side
GazeSameSide ==
    \A n \in DOMAIN raw_blendshapes : \A p \in GazePresets :
        (DOMAIN raw_blendshapes = {n} /\ Emitted(p)) => GazeSide(n) = PresetSide(p)

\* C5 as stated: each gaze output is the mean of its two per-eye coefficients
\* and is emitted iff that mean is > 0, the pairs being (eyeLookUpLeft,
\* eyeLookUpRight), (eyeLookDownLeft, eyeLookDownRight), (eyeLookInLeft,
\* eyeLookOutRight), (eyeLookOutLeft, eyeLookInRight); the two coefficients of
\* a pair turn both eyes to the same side.
C5_GazeRawMean ==
    ExprDone =>
      /\ EmitRule("LookUp",
                  Gt(Mean(Coef("eyeLookUpLeft"), Coef("eyeLookUpRight")), Zero),
                  Mean(Coef("eyeLookUpLeft"), Coef("eyeLookUpRight")))
      /\ EmitRule("LookDown",
                  Gt(Mean(Coef("eyeLookDownLeft"), Coef("eyeLookDownRight")), Zero),
                  Mean(Coef("eyeLookDownLeft"), Coef("eyeLookDownRight")))
      /\ EmitRule("LookLeft",
                  Gt(Mean(Coef("eyeLookInLeft"), Coef("eyeLookOutRight")), Zero),
                  Mean(Coef("eyeLookInLeft"), Coef("eyeLookOutRight")))
      /\ EmitRule("LookRight",
                  Gt(Mean(Coef("eyeLookOutLeft"), Coef("eyeLookInRight")), Zero),
                  Mean(Coef("eyeLookOutLeft"), Coef("eyeLookInRight")))
      /\ GazeSameSide

\* C5 amended: as stated, except that the weight of each gaze output is the
\* mean of its pair clamped to [0, 1].
C5_GazeClampedMean ==
    ExprDone =>
      /\ EmitRule("LookUp",
                  Gt(Mean(Coef("eyeLookUpLeft"), Coef("eyeLookUpRight")), Zero),
                  Clamped(Mean(Coef("eyeLookUpLeft"), Coef("eyeLookUpRight"))))
      /\ EmitRule("LookDown",
                  Gt(Mean(Coef("eyeLookDownLeft"), Coef("eyeLookDownRight")), Zero),
                  Clamped(Mean(Coef("eyeLookDownLeft"), Coef("eyeLookDownRight"))))
      /\ EmitRule("LookLeft",
                  Gt(Mean(Coef("eyeLookInLeft"), Coef("eyeLookOutRight")), Zero),
                  Clamped(Mean(Coef("eyeLookInLeft"), Coef("eyeLookOutRight"))))
      /\ EmitRule("LookRight",
                  Gt(Mean(Coef("eyeLookOutLeft"), Coef("eyeLookInRight")), Zero),
                  Clamped(Mean(Coef("eyeLookOutLeft"), Coef("eyeLookInRight"))))
      /\ GazeSameSide

\* C5 witness: eyeLookInLeft = 0.9 and eyeLookOutRight = 0.5 alone gave
\* LookLeft = 0.7 and nothing else
C5_Witness ==
    /\ ExprDone
    /\ DOMAIN raw_blendshapes = {"eyeLookInLeft", "eyeLookOutRight"}
    /\ Coef("eyeLookInLeft") = 18 /\ Coef("eyeLookOutRight") = 10
    /\ Len(expressions) = 1
    /\ Emitted("LookLeft") /\ HasWeight("LookLeft", 14)

\* C6: an absent name is treated as 0.0: adding any absent name with value 0.0
\* to the frame leaves the result unchanged; the empty frame yields the empty
\* list; names outside the rule table never change the result.
C6_MissingIsZero ==
    ExprDone =>
      /\ \A n \in BlendshapeNames \ DOMAIN raw_blendshapes :
            to_vrm_expressions((n :> Zero) @@ raw_blendshapes) = expressions
      /\ (DOMAIN raw_blendshapes = {}) => expressions = <<>>
      /\ \A n \in OtherNames : \A v \in CoeffValues :
            to_vrm_expressions((n :> v) @@ raw_blendshapes) = expressions
      /\ to_vrm_expressions([n \in DOMAIN raw_blendshapes \ OtherNames |->
                                raw_blendshapes[n]]) = expressions

\* C6 witness: a frame without eyeBlinkRight, holding a name no rule reads,
\* was converted to a non-empty result
C6_Witness ==
    /\ ExprDone
    /\ "eyeBlinkRight" \notin DOMAIN raw_blendshapes
    /\ "browInnerUp" \in DOMAIN raw_blendshapes
    /\ Emitted("BlinkLeft") /\ Emitted("Blink")

\* the empty frame was converted to the empty list
C6_WitnessEmpty ==
    ExprDone /\ DOMAIN raw_blendshapes = {} /\ expressions = <<>>

\* the expression names of the VRM 1.0 specification
CanonicalNames ==
    { "happy", "angry", "sad", "relaxed", "surprised",
      "aa", "ih", "ou", "ee", "oh",
      "blink", "blinkLeft", "blinkRight",
      "lookUp", "lookDown", "lookLeft", "lookRight", "neutral" }

\* the order in which to_vrm_expressions may emit presets
EmitOrder ==
    << "BlinkLeft", "BlinkRight", "Blink", "LookUp", "LookDown", "LookLeft",
       "LookRight", "Happy", "Sad", "Aa", "Ou", "Oh" >>

\* as_str is a bijection from the 18 presets onto the 18 canonical names
AsStrDistinctCanonical ==
    /\ { as_str(p) : p \in VrmExpressionPreset } = CanonicalNames
    /\ \A p, q \in VrmExpressionPreset : as_str(p) = as_str(q) => p = q
    /\ Cardinality(VrmExpressionPreset) = 18
    /\ as_str("Happy") = "happy" /\ as_str("Blink") = "blink"
    /\ as_str("Aa") = "aa" /\ as_str("LookUp") = "lookUp"

OrderIndex(p) == CHOOSE k \in DOMAIN EmitOrder : EmitOrder[k] = p

\* C8: as_str maps the 18 presets to 18 distinct canonical names, and one call
\* returns each preset at most once, only among the 12 presets of EmitOrder and
\* in that order.
C8_CanonicalNamesOnce ==
    /\ AsStrDistinctCanonical
    /\ ExprDone =>
         /\ \A i \in DOMAIN expressions :
               /\ \E k \in DOMAIN EmitOrder : EmitOrder[k] = expressions[i].preset
               /\ as_str(expressions[i].preset) \in CanonicalNames
         /\ \A i, j \in DOMAIN expressions :
               i < j => OrderIndex(expressions[i].preset) < OrderIndex(expressions[j].preset)

\* C8 witness: a frame emitted all 12 presets, one entry each, in order
C8_Witness ==
    /\ ExprDone
    /\ Len(expressions) = 12
    /\ \A k \in 1..12 : expressions[k].preset = EmitOrder[k]

---------------------------------------------------------------------------
(* Properties of the pose mapper (checked under SpecPose) *)

PoseDone == pose_pc = "done"

Present(bone) == \E i \in DOMAIN rotations : rotations[i].bone_name = bone

\* the visibility of the landmark with 0-based index i
Vis(i) == landmarks[i + 1].visibility

Visible(i) == Ge(Vis(i), 10)

\* C9: for every sequence of fewer than 33 landmarks (lengths 0 to 32), whatever
\* its positions and visibilities, the result is the empty list.
C9_ShortIsEmpty ==
    (PoseDone /\ Len(landmarks) < 33) => rotations = <<>>

\* C9 witness: 32 landmarks, the six arm landmarks all visible at 0.9, gave the
\* empty list
C9_Witness ==
    /\ PoseDone
    /\ Len(landmarks) = 32
    /\ \A i \in 11..16 : Vis(i) = 18
    /\ rotations = <<>>

\* C10: for a sequence of at least 33 landmarks each of the five joints is
\* emitted iff both of its landmarks have visibility >= 0.5: leftUpperArm 11/13,
\* leftLowerArm 13/15, rightUpperArm 12/14, rightLowerArm 14/16, chest 11/12;
\* with all visibilities 0.0 the result is empty.
C10_VisibilityGate ==
    (PoseDone /\ Len(landmarks) >= 33) =>
      /\ Present("leftUpperArm") <=> (Visible(11) /\ Visible(13))
      /\ Present("leftLowerArm") <=> (Visible(13) /\ Visible(15))
      /\ Present("rightUpperArm") <=> (Visible(12) /\ Visible(14))
      /\ Present("rightLowerArm") <=> (Visible(14) /\ Visible(16))
      /\ Present("chest") <=> (Visible(11) /\ Visible(12))
      /\ (\A i \in DOMAIN landmarks : landmarks[i].visibility = Zero) => rotations = <<>>

\* C10 witness: both shoulders at exactly 0.5 pass the gate (chest emitted)
\* while the left elbow at 0.45 blocks both left arm joints
C10_Witness ==
    /\ PoseDone
    /\ Len(landmarks) >= 33
    /\ Vis(11) = 10 /\ Vis(12) = 10 /\ Vis(13) = 9 /\ Vis(15) = 18
    /\ Present("chest")
    /\ ~Present("leftUpperArm") /\ ~Present("leftLowerArm")

\* all visibilities 0.0 in a 33-landmark sequence gave the empty list
C10_WitnessAllZero ==
    /\ PoseDone
    /\ Len(landmarks) = 33
    /\ \A i \in DOMAIN landmarks : landmarks[i].visibility = Zero
    /\ rotations = <<>>

---------------------------------------------------------------------------
(* Properties of call sequences (checked under SpecCalls) *)

SameCall(a, b) == a.fn = b.fn /\ a.input = b.input

C7_WitnessBetween ==
    /\ Len(calls) >= 3
    /\ calls[1].fn = "to_vrm_expressions" /\ calls[1].input = [n \in {} |-> Zero]
    /\ calls[2].fn = "to_vrm_expressions" /\ calls[2].output # <<>>
    /\ SameCall(calls[1], calls[3]) /\ calls[3].output = <<>>

---------------------------------------------------------------------------
(* The list of bone rotations *)

BoneNames == { "leftUpperArm", "leftLowerArm", "rightUpperArm", "rightLowerArm", "chest" }

BoneNamesOf(rs) == { rs[i].bone_name : i \in DOMAIN rs }

\* the two landmarks a bone's joint is made of
JointOf(bone) ==
    CASE bone = "leftUpperArm" -> <<LeftShoulder, LeftElbow>>
      [] bone = "leftLowerArm" -> <<LeftElbow, LeftWrist>>
      [] bone = "rightUpperArm" -> <<RightShoulder, RightElbow>>
      [] bone = "rightLowerArm" -> <<RightElbow, RightWrist>>
      [] bone = "chest" -> <<LeftShoulder, RightShoulder>>

\* C11: the result of landmarks_to_bone_rotations has at most five entries, no
\* bone name twice, every name one of the five bones; with both shoulders, both
\* elbows and both wrists visible it holds exactly the five bones.
C11_FiveBones ==
    PoseDone =>
        /\ Len(rotations) <= 5
        /\ BoneNamesOf(rotations) \subseteq BoneNames
        /\ \A i, j \in DOMAIN rotations :
               rotations[i].bone_name = rotations[j].bone_name => i = j
        /\ (Len(landmarks) >= MinLandmarks /\ \A i \in ArmIndices : Visible(i))
               => /\ Len(rotations) = 5
                  /\ BoneNamesOf(rotations) = BoneNames

\* all six landmarks at visibility 0.9: five entries
C11_Witness ==
    /\ PoseDone
    /\ Len(landmarks) = MinLandmarks
    /\ \A i \in ArmIndices : Vis(i) = 18
    /\ Len(rotations) = 5
    /\ BoneNamesOf(rotations) = BoneNames

\* only the left arm is visible: two entries
C11_WitnessPartial ==
    /\ PoseDone
    /\ BoneNamesOf(rotations) = { "leftUpperArm", "leftLowerArm" }
    /\ Len(rotations) = 2

\* C12: the confidence of an emitted bone rotation is the mean of the
\* visibilities of its joint's two landmarks, clamped to [0, 1]; with both
\* visibilities in [0, 1] it lies between 0.5 and 1.
C12_ConfidenceIsMeanVisibility ==
    PoseDone =>
        \A i \in DOMAIN rotations :
            LET joint == JointOf(rotations[i].bone_name)
                va == Vis(joint[1])
                vb == Vis(joint[2])
            IN  /\ rotations[i].confidence = Clamped(Mean(va, vb))
                /\ ({va, vb} \subseteq Zero..One)
                       => rotations[i].confidence \in 10..One

\* shoulder at 0.5 and elbow at 0.9: the upper arm's confidence is 0.7
C12_Witness ==
    /\ PoseDone
    /\ Len(landmarks) >= MinLandmarks
    /\ Vis(LeftShoulder) = 10
    /\ Vis(LeftElbow) = 18
    /\ \E i \in DOMAIN rotations :
           rotations[i].bone_name = "leftUpperArm" /\ rotations[i].confidence = 14

\* visibilities above 1: the confidence stops at 1
C12_WitnessClamped ==
    /\ PoseDone
    /\ Len(landmarks) >= MinLandmarks
    /\ Vis(LeftShoulder) = PosInf
    /\ \E i \in DOMAIN rotations :
           rotations[i].bone_name = "chest" /\ rotations[i].confidence = One

---------------------------------------------------------------------------
(* The rotation primitive *)

RotDone == rot_pc = "done"

\* from . to of the call's arguments
RotDot == [num |-> Dot3(rot_from.num, rot_to.num), den2 |-> rot_from.den2 * rot_to.den2]

\* from . to > 0.9999 and from . to < -0.9999 of the call's arguments
RotParallel == CosVsThreshold(RotDot) = 1

RotAntiParallel == CosVsThreshold([num |-> 0 - RotDot.num, den2 |-> RotDot.den2]) = 1

\* a vector that the exact representation cannot hold
NoVec == [num |-> <<0, 0, 0>>, den2 |-> 0]

Scale3(c, a) == <<c * a[1], c * a[2], c * a[3]>>

Add3(a, b) == <<a[1] + b[1], a[2] + b[2], a[3] + b[3]>>

\* the quaternion q applied to the unit vector v (Rodrigues' formula):
\*   v cos(angle) + (k x v) sin(angle) + k (k . v) (1 - cos(angle))
\* for angle pi this is 2 k (k . v) - v; for angle acos(c) it is evaluated when
\* v is perpendicular to the axis k and |k.num|^2 = c.den2 - c.num^2, where
\* sin(angle) = |k.num| / sqrt(c.den2) and the result is
\* (c.num v.num + k.num x v.num) / sqrt(v.den2 c.den2)
Rotate(q, v) ==
    IF q.kind = "identity" THEN v
    ELSE IF q.kind = "nan" THEN NoVec
    ELSE IF q.angle.fn = "pi"
    THEN [num |-> sub(Scale3(2 * Dot3(q.axis.num, v.num), q.axis.num),
                      Scale3(q.axis.den2, v.num)),
          den2 |-> q.axis.den2 * q.axis.den2 * v.den2]
    ELSE IF /\ q.angle.fn = "acos"
            /\ Dot3(q.axis.num, v.num) = 0
            /\ q.axis.den2 = q.angle.den2 - q.angle.num * q.angle.num
    THEN [num |-> Add3(Scale3(q.angle.num, v.num), Cross3(q.axis.num, v.num)),
          den2 |-> v.den2 * q.angle.den2]
    ELSE NoVec

\* u and w are the same vector: same direction, same length
SameVec(u, w) ==
    /\ u.den2 > 0
    /\ w.den2 > 0
    /\ Cross3(u.num, w.num) = <<0, 0, 0>>
    /\ Dot3(u.num, w.num) > 0
    /\ Dot3(u.num, u.num) * w.den2 = Dot3(w.num, w.num) * u.den2

\* C13: for unit vectors neither nearly parallel nor nearly anti-parallel the
\* result is the axis-angle quaternion with axis normalize(from x to) and angle
\* acos(from . to), and it rotates from onto to.
C13_GeneralBranch ==
    (RotDone /\ ~RotParallel /\ ~RotAntiParallel) =>
        /\ rot_result.kind = "axis_angle"
        /\ rot_result.axis.num = Cross3(rot_from.num, rot_to.num)
        /\ rot_result.axis.den2 = Dot3(rot_result.axis.num, rot_result.axis.num)
        /\ rot_result.angle = [fn |-> "acos", num |-> RotDot.num, den2 |-> RotDot.den2]
        /\ SameVec(Rotate(rot_result, rot_from), rot_to)

\* from = (1,0,0), to = (0,1,0): a quarter turn about Z
C13_Witness ==
    /\ RotDone
    /\ rot_from = UnitVec3(1, 0, 0)
    /\ rot_to = UnitVec3(0, 1, 0)
    /\ rot_result.axis = UnitVec3(0, 0, 1)
    /\ rot_result.angle.num = 0
    /\ Rotate(rot_result, rot_from) = rot_to

\* just inside the general branch: from = X, to = (70,1,0)/sqrt(4901)
C13_WitnessNear ==
    /\ RotDone
    /\ rot_from = UnitVec3(1, 0, 0)
    /\ rot_to = normalize(<<70, 1, 0>>)
    /\ rot_result.kind = "axis_angle"
    /\ rot_result.angle.fn = "acos"

\* the scalar 9999 / sqrt(10^8) = 0.9999
ExactThreshold == [num |-> 9999, den2 |-> 100000000]

\* C14: the result is the identity exactly when from . to > 0.9999; a dot
\* product of exactly 0.9999 is not in the parallel case; from = to gives the
\* identity.
C14_IdentityIffParallel ==
    /\ ~dot_gt_parallel(ExactThreshold)
    /\ RotDone =>
           /\ (rot_result = Quat_IDENTITY) <=> RotParallel
           /\ (rot_from = rot_to) => rot_result = Quat_IDENTITY

\* the left elbow straight along -X from the left shoulder: identity
C14_Witness ==
    /\ RotDone
    /\ rot_from = UnitVec3(-1, 0, 0)
    /\ rot_to = normalize(sub(TPose[LeftElbow], TPose[LeftShoulder]))
    /\ rot_result = Quat_IDENTITY

\* just above the threshold: from = X, to = (71,1,0)/sqrt(5042)
C14_WitnessNear ==
    /\ RotDone
    /\ rot_from = UnitVec3(1, 0, 0)
    /\ rot_to = normalize(<<71, 1, 0>>)
    /\ rot_result = Quat_IDENTITY

\* C15: when from . to < -0.9999 the result is a rotation by pi about world Y
\* or world X, and for every unit from it maps from onto to (the image of from
\* is within the 0.9999 tolerance of to, as it is for an axis perpendicular to
\* from).
C15_AntiParallelMapsOnto ==
    (RotDone /\ RotAntiParallel) =>
        /\ rot_result.kind = "axis_angle"
        /\ rot_result.angle = AnglePi
        /\ rot_result.axis \in { UnitVec3(0, 1, 0), UnitVec3(1, 0, 0) }
        /\ CosVsThreshold(dot(Rotate(rot_result, rot_from), rot_to)) = 1

\* q = (axis sin(angle/2), cos(angle/2)) has norm 1: it is the identity, or its
\* axis has length 1 and its angle is a number
IsUnitQuat(q) ==
    \/ q.kind = "identity"
    \/ /\ q.kind = "axis_angle"
       /\ q.axis.den2 > 0
       /\ Dot3(q.axis.num, q.axis.num) = q.axis.den2
       /\ q.angle.fn \in {"zero", "pi", "acos"}

\* C16: every bone rotation returned by landmarks_to_bone_rotations carries a
\* unit quaternion, for every sequence of at least 33 landmarks, including those
\* in which the two landmarks of a visible joint coincide.
C16_UnitQuaternion ==
    PoseDone => \A i \in DOMAIN rotations : IsUnitQuat(rotations[i].rotation)

---------------------------------------------------------------------------
(* Failure paths *)

\* C17: neither mapper has a failure path: for every blendshape map and for
\* every landmark sequence of every length the call ends normally, without a
\* panic or an out-of-range index, and its result is a list.
C17_NoFailurePath ==
    /\ expr_pc \in {"idle", "call", "done"}
    /\ pose_pc \in {"idle", "call", "done"}
    /\ ExprDone => DOMAIN expressions = 1..Len(expressions)
    /\ PoseDone => DOMAIN rotations = 1..Len(rotations)

\* 33 landmarks, all visible: the highest index read is 16, five entries returned
C17_Witness ==
    /\ PoseDone
    /\ Len(landmarks) = MinLandmarks
    /\ Len(rotations) = 5

\* 16 landmarks, one short of the last index read: the empty list
C17_WitnessShort ==
    /\ PoseDone
    /\ Len(landmarks) = RightWrist
    /\ rotations = <<>>

\* more than 33 landmarks
C17_WitnessLong ==
    /\ PoseDone
    /\ Len(landmarks) > MinLandmarks
    /\ Len(rotations) = 5

\* the expression mapper on infinite coefficients
C17_WitnessExpr ==
    /\ ExprDone
    /\ \E n \in DOMAIN raw_blendshapes : raw_blendshapes[n] = PosInf
    /\ Len(expressions) > 0

---------------------------------------------------------------------------
(* The reader thread, the channel and the draining system *)

\* the line can be read, is JSON and has the required fields
WellFormed(line) ==
    line.readable /\ line.json /\ {"ts", "blendshapes"} \subseteq line.keys

\* the positions of the well-formed lines among the first n lines, in order
RECURSIVE WellFormedUpTo(_)
WellFormedUpTo(n) ==
    IF n = 0 THEN <<>>
    ELSE IF WellFormed(stdout.lines[n])
    THEN Append(WellFormedUpTo(n - 1), n)
    ELSE WellFormedUpTo(n - 1)

\* the frame is the one the line at position i describes
FrameOfLine(frame, i) ==
    /\ frame.ts = stdout.lines[i].ts
    /\ frame.blendshapes = stdout.lines[i].blendshapes
    /\ frame.pose_world_landmarks =
           IF "pose_world_landmarks" \in stdout.lines[i].keys
           THEN stdout.lines[i].pose_world_landmarks ELSE <<>>

\* the frames fs are those of the well-formed lines among the first n, in order
FramesOfLines(fs, n) ==
    LET good == WellFormedUpTo(n)
    IN  /\ Len(fs) = Len(good)
        /\ \A k \in DOMAIN fs : FrameOfLine(fs[k], good[k])

\* C18: for every frame drained from the channel the expression mapper has run
\* once on its blendshapes and the pose mapper once on its
\* pose_world_landmarks, and after the drain both results are there for the
\* sink.
C18_BothMappersPerFrame ==
    /\ Len(expr_runs) = Len(processed)
    /\ \A k \in DOMAIN expr_runs :
           /\ expr_runs[k].input = processed[k].blendshapes
           /\ expr_runs[k].output = to_vrm_expressions(processed[k].blendshapes)
    /\ Len(pose_runs) = Len(processed)
    /\ \A k \in DOMAIN pose_runs :
           /\ pose_runs[k].input = processed[k].pose_world_landmarks
           /\ pose_runs[k].output =
                  landmarks_to_bone_rotations(processed[k].pose_world_landmarks)
    /\ processed # <<>> =>
           current_expressions = expr_runs[Len(expr_runs)].output

\* C19: a malformed line produces no frame and does not stop the reader: the
\* frames sent so far are those of the well-formed lines read so far, in
\* order, and the reader ends only when every line has been read.
C19_BadLinesAreSkipped ==
    /\ FramesOfLines(sent, stdout.pos)
    /\ reader_pc = "ended" => stdout.pos = Len(stdout.lines)

\* invalid JSON, then a frame, then a line without ts, then the end: one frame
C19_Witness ==
    /\ reader_pc = "ended"
    /\ Len(stdout.lines) = 3
    /\ stdout.lines[1].readable /\ ~stdout.lines[1].json
    /\ WellFormed(stdout.lines[2])
    /\ stdout.lines[3].json /\ "ts" \notin stdout.lines[3].keys
    /\ Len(sent) = 1
    /\ sent[1].ts = 2

\* an unreadable line between two frames
C19_WitnessUnreadable ==
    /\ Len(stdout.lines) = 3
    /\ ~stdout.lines[2].readable
    /\ Len(sent) = 2
    /\ sent[1].ts = 1
    /\ sent[2].ts = 3

\* C20: the channel is an unbounded FIFO: the reader's step is never kept
\* waiting by queued frames, and the frames processed followed by the frames
\* queued are the frames sent, so that the consumer sees the well-formed lines
\* in the order read, none lost, duplicated or reordered; once the reader has
\* ended and the channel is empty, every well-formed line has been processed.
C20_FifoExactlyOnce ==
    /\ processed \o channel = sent
    /\ FramesOfLines(processed \o channel, stdout.pos)
    /\ \A j, k \in DOMAIN processed : j < k => processed[j].ts < processed[k].ts
    /\ (reader_pc = "reading" /\ stdout.pos < Len(stdout.lines)) => ENABLED ReadLine
    /\ (reader_pc = "ended" /\ channel = <<>>)
           => FramesOfLines(processed, Len(stdout.lines))

\* two frames processed while a third waits in the channel
C20_Witness ==
    /\ Len(processed) = 2
    /\ Len(channel) = 1
    /\ drain_pc = "draining"
    /\ processed[1].ts = 1
    /\ processed[2].ts = 2
    /\ channel[1].ts = 3

\* three frames queued before the first drain
C20_WitnessQueued ==
    /\ Len(channel) = 3
    /\ processed = <<>>

---------------------------------------------------------------------------
(* LiveExpressionWeights *)

\* the names asked for: those given to set_weight and every canonical name
AskedNames == LiveNames \cup { as_str(p) : p \in VrmExpressionPreset }

C21_WitnessClear ==
    /\ live_n > 0
    /\ live_last.fn = "clear"
    /\ "happy" \in DOMAIN live_before
    /\ get_weight(live_weights, "happy") = Zero

\* the weight of the last expression of exprs whose canonical name is n, 0.0
\* when there is none
LastWeight(exprs, n) ==
    LET places == { i \in DOMAIN exprs : as_str(exprs[i].preset) = n }
    IN  IF places = {} THEN Zero
        ELSE exprs[CHOOSE i \in places : \A j \in places : j <= i].weight

\* C22: update_from_expressions replaces the whole table: afterwards
\* get_weight(name) is the weight of the last listed expression of that name
\* and 0.0 for every other name, whatever was stored before; a second call with
\* the same list leaves the table as it is.
C22_UpdateReplacesTable ==
    (live_n > 0 /\ live_last.fn = "update_from_expressions") =>
        LET exprs == live_last.arg
        IN  /\ \A n \in AskedNames :
                   get_weight(live_weights, n) = LastWeight(exprs, n)
            /\ DOMAIN live_weights = { as_str(exprs[i].preset) : i \in DOMAIN exprs }
            /\ (/\ DOMAIN live_before = { as_str(exprs[i].preset) : i \in DOMAIN exprs }
                /\ \A n \in DOMAIN live_before : live_before[n] = LastWeight(exprs, n))
                   => live_weights = live_before

\* happy 0.8 and blink 0.3 written over a table that held "custom"
C22_Witness ==
    /\ live_n > 0
    /\ live_last.fn = "update_from_expressions"
    /\ live_last.arg = <<VrmExpression_new("Happy", 16), VrmExpression_new("Blink", 6)>>
    /\ "custom" \in DOMAIN live_before
    /\ get_weight(live_weights, "happy") = 16
    /\ get_weight(live_weights, "blink") = 6
    /\ get_weight(live_weights, "custom") = Zero

\* the same list a second time
C22_WitnessTwice ==
    /\ live_n = 2
    /\ live_last.fn = "update_from_expressions"
    /\ Len(live_last.arg) = 2
    /\ live_last.arg[1].preset = live_last.arg[2].preset
    /\ live_last.arg[1].weight # live_last.arg[2].weight
    /\ live_before = live_weights

---------------------------------------------------------------------------
(* Properties of the draining system and of apply_expressions (checked under *)
(* SpecAvatar)                                                               *)

RECURSIVE SumOver(_, _, _)
\* the sum of term(t) over the finite set terms
SumOver(terms, term(_), acc) ==
    IF terms = {} THEN acc
    ELSE LET t == CHOOSE x \in terms : TRUE
         IN  SumOver(terms \ {t}, term, Add(acc, term(t)))

\* clamp(sum of expression_weight x base_weight over the current expressions
\* bound to morph target i, 0, 1)
ExpectedMorphWeight(exprs, expr_map, i) ==
    LET bound == { nk \in UNION { {n} \X DOMAIN expr_map[n] : n \in DOMAIN expr_map } :
                      /\ \E k \in DOMAIN exprs : as_str(exprs[k].preset) = nk[1]
                      /\ expr_map[nk[1]][nk[2]][1] = i }
        term(nk) == Mul(LastWeight(exprs, nk[1]), expr_map[nk[1]][nk[2]][2])
    IN  clamp(SumOver(bound, term, Zero), Zero, MorphOne)

\* C23: after apply_expressions has run, every morph weight of every mesh is
\* the clamped sum of expression weight x base weight over the current
\* expressions bound to it, hence 0 when the latest frame emits no expression
\* that drives it
C23_MorphWeightsFollowFrame ==
    applied.ran =>
        \A m \in DOMAIN morph_weights : \A i \in 0..(Len(morph_weights[m]) - 1) :
            morph_weights[m][i + 1]
                = ExpectedMorphWeight(applied.read, expression_to_morphs, i)

\* what CurrentExpressions holds after the run `run` of dump_tracker_frames
AfterRun(run) ==
    IF run.frames = <<>> THEN run.start
    ELSE to_vrm_expressions(run.frames[Len(run.frames)].blendshapes)

\* C24: when dump_tracker_frames has run, the channel was empty at its end and
\* CurrentExpressions is the mapper's output for the last frame it drained, or
\* what it was before when it drained none; apply_expressions only ever reads
\* the result of a whole run
C24_DrainKeepsLastFrame ==
    /\ drain_run.state = "done" =>
           /\ drain_run.left = <<>>
           /\ drain_pc = "idle"
           /\ current_expressions = AfterRun(drain_run)
    /\ applied.ran =>
           IF applied.run.state = "none" THEN applied.read = <<>>
           ELSE applied.run.state = "done" /\ applied.read = AfterRun(applied.run)

\* a run that drained a smile and then a neutral face, applied afterwards
C24_Witness ==
    /\ drain_run.state = "done"
    /\ Len(drain_run.frames) >= 2
    /\ to_vrm_expressions(drain_run.frames[1].blendshapes) # <<>>
    /\ current_expressions = <<>>
    /\ applied.ran
    /\ applied.run = drain_run

\* a run that found the channel empty after an earlier run had set a smile
C24_WitnessNoFrame ==
    /\ drain_run.state = "done"
    /\ drain_run.frames = <<>>
    /\ drain_run.start # <<>>
    /\ current_expressions = drain_run.start

\* C27: every MorphWeights keeps its number of morph targets and every weight
\* is in [0,1], whatever the bindings' indices and base weights are
C27_MorphWeightsInRange ==
    \A m \in DOMAIN morph_weights :
        /\ Len(morph_weights[m]) = MorphTargets[m]
        /\ \A i \in DOMAIN morph_weights[m] :
               Ge(morph_weights[m][i], Zero) /\ Ge(MorphOne, morph_weights[m][i])

---------------------------------------------------------------------------
(* Properties of VRM loading (checked under SpecLoad) *)

\* the results that carry a path
Picked(results) == SelectSeq(results, LAMBDA r : r # <<>>)

RECURSIVE LoadedBatches(_)
\* the paths the loads made so far found selected, load after load
LoadedBatches(log) ==
    IF log = <<>> THEN <<>>
    ELSE LoadedBatches(SubSeq(log, 1, Len(log) - 1)) \o log[Len(log)].selected

\* C25: with the queued commands applied at most one CurrentVrmEntity exists;
\* every selected path goes to exactly one load, which takes the slot and
\* loads the last path selected before it; a load queues the despawn of every
\* entity it finds before its one spawn; cancelled dialogs change nothing
C25_AtMostOneVrmEntity ==
    /\ Cardinality(apply_commands(vrm_entities, commands)) <= 1
    /\ commands = <<>> => Cardinality(vrm_entities) <= 1
    /\ LoadedBatches(load_log) \o selected \o Picked(dialog_rx) = Picked(dialog_results)
    /\ IF selected = <<>> THEN vrm_path = <<>>
       ELSE vrm_path = selected[Len(selected)]
    /\ \A k \in DOMAIN load_log :
           /\ load_log[k].selected # <<>>
           /\ load_log[k].path = load_log[k].selected[Len(load_log[k].selected)][1]
    /\ load_log # <<>> =>
           LET load == load_log[Len(load_log)]
               new == [id |-> Len(load_log), path |-> load.path]
           IN  apply_commands(vrm_entities, commands)
                   = IF load.fs = "ok" THEN {new} ELSE {}
    /\ Picked(dialog_results) = <<>> =>
           vrm_path = <<>> /\ vrm_entities = {} /\ commands = <<>> /\ load_log = <<>>

\* two files picked before the first load, which loads the second of them; a
\* later load replaces its entity
C25_Witness ==
    /\ Len(load_log) = 2
    /\ Len(load_log[1].selected) = 2
    /\ load_log[1].selected[1] # load_log[1].selected[2]
    /\ load_log[1].fs = "ok"
    /\ load_log[2].fs = "ok"
    /\ load_log[2].found # {}
    /\ commands = <<>>
    /\ vrm_entities = { [id |-> 2, path |-> load_log[2].path] }

\* a cancelled dialog after a load
C25_WitnessCancelled ==
    /\ Len(load_log) = 1
    /\ Len(dialog_results) = 2
    /\ dialog_results[2] = <<>>
    /\ dialog_rx = <<>>
    /\ commands = <<>>
    /\ Cardinality(vrm_entities) = 1

\* C26: when a load fails to create the directory or to copy the file, then,
\* its commands applied, the world holds the CurrentVrmEntity entities the
\* load found
C26_FailedLoadKeepsScene ==
    (load_log # <<>> /\ load_log[Len(load_log)].fs # "ok" /\ commands = <<>>) =>
        vrm_entities = load_log[Len(load_log)].found

---------------------------------------------------------------------------
(* Properties of parse_glb (checked under SpecGlb) *)

\* the length and the type written in the chunk header at offset `at0`
ChunkLengthAt(at0) == from_le_bytes(SubSeq(glb_bytes, at0 + 1, at0 + 4))

ChunkTypeAt(at0) == from_le_bytes(SubSeq(glb_bytes, at0 + 5, at0 + 8))

\* the loop iterations whose chunk, header and body, lies within the input
ChunksRead ==
    { k \in DOMAIN glb_prev :
        /\ glb_prev[k] + 8 <= Len(glb_bytes)
        /\ glb_prev[k] + 8 + ChunkLengthAt(glb_prev[k]) <= Len(glb_bytes) }

\* the body of the last chunk of type `type` that was read, empty if none was
LastBodyRead(type) ==
    LET ks == { k \in ChunksRead : ChunkTypeAt(glb_prev[k]) = type }
    IN  IF ks = {} THEN <<>>
        ELSE LET k == CHOOSE x \in ks : \A y \in ks : y <= x
             IN  SubSeq(glb_bytes, glb_prev[k] + 9,
                        glb_prev[k] + 8 + ChunkLengthAt(glb_prev[k]))

\* C28: parse_glb never indexes past the end of its input; it returns an error
\* exactly for inputs shorter than 12 bytes, with another magic or another
\* version; the offset grows with every loop iteration and stays within the
\* input, so there are at most (len - 12) / 8 + 1 iterations; a chunk that
\* does not fit ends the parse with Ok; the bodies returned are those of the
\* last JSON and the last BIN chunk read
C28_ParseGlbTerminatesInBounds ==
    /\ glb_pc # "panic"
    /\ glb_pc # "call" =>
           (glb_pc = "err" <=>
               \/ Len(glb_bytes) < 12
               \/ SubSeq(glb_bytes, 1, 4) # <<103, 108, 84, 70>>
               \/ SubSeq(glb_bytes, 5, 8) # <<2, 0, 0, 0>>)
    /\ \A k \in DOMAIN glb_prev :
           /\ k > 1 => glb_prev[k - 1] + 8 <= glb_prev[k]
           /\ 12 <= glb_prev[k] /\ glb_prev[k] < Len(glb_bytes)
           /\ glb_pc = "loop" => glb_prev[k] + 8 <= glb_offset
    /\ glb_pc = "loop" => glb_offset <= Len(glb_bytes)
    /\ glb_prev # <<>> => 12 + 8 * (Len(glb_prev) - 1) < Len(glb_bytes)
    /\ ChunksRead \in { 1..n : n \in 0..Len(glb_prev) }
    /\ glb_pc \in {"loop", "ok"} =>
           /\ glb_json_data = LastBodyRead(JsonType)
           /\ glb_bin_data = LastBodyRead(BinType)

\* a chunk of unknown type is skipped and the JSON chunk after it is returned
C28_Witness ==
    /\ glb_pc = "ok"
    /\ Len(glb_prev) = 2
    /\ ChunksRead = {1, 2}
    /\ ChunkTypeAt(glb_prev[1]) \notin {JsonType, BinType}
    /\ ChunkLengthAt(glb_prev[1]) > 0
    /\ ChunkTypeAt(glb_prev[2]) = JsonType
    /\ glb_json_data = <<7, 8>>
    /\ glb_offset = Len(glb_bytes)

\* the second of two JSON chunks, an empty one, is the one returned
C28_WitnessLastJson ==
    /\ glb_pc = "ok"
    /\ ChunksRead = {1, 2}
    /\ ChunkTypeAt(glb_prev[1]) = JsonType
    /\ ChunkTypeAt(glb_prev[2]) = JsonType
    /\ ChunkLengthAt(glb_prev[1]) = 2
    /\ ChunkLengthAt(glb_prev[2]) = 0
    /\ glb_json_data = <<>>

\* a chunk whose body is cut off ends the parse with what was read before it
C28_WitnessCutBody ==
    /\ glb_pc = "ok"
    /\ Len(glb_prev) = 2
    /\ ChunksRead = {1}
    /\ glb_prev[2] + 8 <= Len(glb_bytes)
    /\ glb_bin_data = <<7, 8>>

\* a chunk header that is cut off ends the parse too
C28_WitnessCutHeader ==
    /\ glb_pc = "ok"
    /\ Len(glb_prev) = 2
    /\ glb_prev[2] + 8 > Len(glb_bytes)
    /\ glb_json_data # <<>>

---------------------------------------------------------------------------
(* The combined blink against the two per-eye blinks (checked under          *)
(* SpecBlink)                                                                *)

\* the weight with which preset p was emitted, 0 when it was not
EmittedWeight(p) ==
    IF Emitted(p)
    THEN expressions[CHOOSE i \in DOMAIN expressions : expressions[i].preset = p].weight
    ELSE Zero

\* both eyelid coefficients are absent or in [0,1]
BlinkNominal ==
    \A n \in {"eyeBlinkLeft", "eyeBlinkRight"} :
        n \in DOMAIN raw_blendshapes =>
            Ge(raw_blendshapes[n], Zero) /\ Ge(One, raw_blendshapes[n])

LargerEyeWeight ==
    IF EmittedWeight("BlinkLeft") >= EmittedWeight("BlinkRight")
    THEN EmittedWeight("BlinkLeft") ELSE EmittedWeight("BlinkRight")

\* one eyelid coefficient is the smallest positive f32 and the other is 0 or
\* absent
BlinkUnderflows ==
    Add(get(raw_blendshapes, "eyeBlinkLeft"), get(raw_blendshapes, "eyeBlinkRight"))
        = MinPositive

\* C29 as stated: for eyelid coefficients in [0,1] or absent, Blink is emitted
\* iff BlinkLeft or BlinkRight is, with a weight not above the larger per-eye
\* weight
C29_BlinkIffEitherEye ==
    (expr_pc = "done" /\ BlinkNominal) =>
        /\ Emitted("Blink") <=> (Emitted("BlinkLeft") \/ Emitted("BlinkRight"))
        /\ EmittedWeight("Blink") <= LargerEyeWeight

\* C29, amended: for eyelid coefficients in [0,1] or absent, Blink is emitted
\* iff BlinkLeft or BlinkRight is and the two coefficients do not add up to
\* the smallest positive f32, whose half rounds to 0; its weight is not above
\* the larger per-eye weight
C29_BlinkIffEitherEyeAboveUnderflow ==
    (expr_pc = "done" /\ BlinkNominal) =>
        /\ Emitted("Blink") <=>
               ((Emitted("BlinkLeft") \/ Emitted("BlinkRight")) /\ ~BlinkUnderflows)
        /\ EmittedWeight("Blink") <= LargerEyeWeight

\* one eye closed by 0.3: BlinkLeft 0.3 and Blink 0.15, no BlinkRight
C29_Witness ==
    /\ expr_pc = "done"
    /\ BlinkNominal
    /\ get(raw_blendshapes, "eyeBlinkLeft") = 6
    /\ get(raw_blendshapes, "eyeBlinkRight") = Zero
    /\ Emitted("BlinkLeft") /\ ~Emitted("BlinkRight")
    /\ Emitted("Blink") /\ EmittedWeight("Blink") = 3

\* the underflow: BlinkRight is emitted with the smallest positive weight,
\* Blink is not
C29_WitnessUnderflow ==
    /\ expr_pc = "done"
    /\ BlinkNominal
    /\ BlinkUnderflows
    /\ Emitted("BlinkRight") /\ ~Emitted("BlinkLeft") /\ ~Emitted("Blink")

---------------------------------------------------------------------------
(* The presence of the joints as a function of the visibilities (checked     *)
(* under SpecPose)                                                           *)

\* the joints a result holds
JointsOf(rots) == { rots[i].bone_name : i \in DOMAIN rots }

\* the inputs of the given lengths that have the visibilities of landmarks
\* 11..16 of the input at hand, with other positions and other landmarks
SameArmVisibilities(lens) ==
    { MkLandmarks(len, shape, [i \in ArmIndices |-> Vis(i)], filler) :
        len \in lens, shape \in PoseShapes, filler \in Fillers }

\* in a result, both upper arms bring the chest, and a lower arm with a
\* visible shoulder of its side brings the upper arm of that side
JointsDependOnEachOther ==
    /\ (Present("leftUpperArm") /\ Present("rightUpperArm")) => Present("chest")
    /\ (Present("leftLowerArm") /\ Visible(LeftShoulder)) => Present("leftUpperArm")
    /\ (Present("rightLowerArm") /\ Visible(RightShoulder)) => Present("rightUpperArm")

\* C30 as stated: every input that has landmarks 11 to 16 with the same
\* visibilities gives the same joints, whatever its positions and its other
\* landmarks; and the joints of a result depend on each other
C30_PresenceFromArmVisibilities ==
    (PoseDone /\ Len(landmarks) > RightWrist) =>
        /\ \A lms \in SameArmVisibilities({RightWrist + 1, MinLandmarks}) :
               JointsOf(landmarks_to_bone_rotations(lms)) = JointsOf(rotations)
        /\ JointsDependOnEachOther

\* C30, amended: every input of at least 33 landmarks that has the same
\* visibilities of landmarks 11 to 16 gives the same joints, whatever its
\* positions and its other landmarks; and the joints of a result depend on
\* each other
C30_PresenceFromArmVisibilitiesOf33 ==
    /\ (PoseDone /\ Len(landmarks) >= MinLandmarks) =>
           \A lms \in SameArmVisibilities({MinLandmarks, MaxLandmarks}) :
               JointsOf(landmarks_to_bone_rotations(lms)) = JointsOf(rotations)
    /\ (PoseDone /\ Len(landmarks) > RightWrist) => JointsDependOnEachOther

\* a visible left forearm and left shoulder with the right elbow hidden: the
\* left arm and the chest are there, the right arm is not
C30_Witness ==
    /\ PoseDone
    /\ Len(landmarks) >= MinLandmarks
    /\ Present("leftLowerArm") /\ Visible(LeftShoulder) /\ Present("leftUpperArm")
    /\ Present("chest")
    /\ ~Visible(RightElbow)
    /\ JointsOf(rotations) = {"leftUpperArm", "leftLowerArm", "chest"}
    /\ \E lms \in SameArmVisibilities({MaxLandmarks}) :
           lms # landmarks /\ JointsOf(landmarks_to_bone_rotations(lms)) = JointsOf(rotations)

\* both upper arms, hence the chest, without any lower arm
C30_WitnessUpperArms ==
    /\ PoseDone
    /\ JointsOf(rotations) = {"leftUpperArm", "rightUpperArm", "chest"}

====
